---- MODULE Spec2Model ----
(***************************************************************************)
(* A state-machine model of the entity fabric, the OpenTherm bridge and    *)
(* the binding handshake of ramses_rf (src/ramses_rf/devices.py) and of    *)
(* the discovery scripts (src/evohome_rf/discovery.py).                    *)
(*                                                                         *)
(* Python objects are keyed by their id; None is the string "None"; an     *)
(* exception raised by a handler is recorded in err (what was assigned     *)
(* before the raise stays assigned, as in Python).                         *)
(***************************************************************************)
EXTENDS Integers, Sequences, FiniteSets, TLC

None == "None"

(***************************************************************************)
(* The devices of the installation: two TCS-capable types and one TRV.     *)
(***************************************************************************)
DevIds == {"01:a", "12:a", "04:a"}

\* dev_addr.type: the two-digit prefix of the id
dev_type(d) ==
    CASE d = "01:a" -> "01"
      [] d = "12:a" -> "12"
      [] d = "04:a" -> "04"
      [] d = "10:a" -> "10"
      [] d = "13:a" -> "13"
      [] d = "34:a" -> "34"
      [] d = "18:a" -> "18"
      [] d = "03:a" -> "03"
      [] d = "30:a" -> "30"
      [] d = "07:a" -> "07"
      [] d = "01:z" -> "01"
      [] OTHER -> "--"

\* _DEV_TYPE_TO_KLASS
klass(d) ==
    CASE dev_type(d) \in {"01"} -> "CTL"
      [] dev_type(d) \in {"03", "12", "22", "34"} -> "THM"
      [] dev_type(d) \in {"04"} -> "TRV"
      [] dev_type(d) \in {"10"} -> "OTB"
      [] dev_type(d) \in {"07"} -> "DHW"
      [] dev_type(d) \in {"13"} -> "BDR"
      [] dev_type(d) \in {"18"} -> "HGI"
      [] dev_type(d) \in {"30"} -> "RFG"
      [] OTHER -> "DEV"

TcsTypesAndTrv == {"01", "04", "12", "22", "23", "34"}

\* the device types for which _make_tcs_controller creates a TCS
TcsTypes == {"01", "12", "22", "23", "34"}

\* protocol.ramses.CODE_ONLY_FROM_CTL, restricted to the codes of the model
CODE_ONLY_FROM_CTL == {"1030", "1F09"}

ZoneIdx == {"00", "01"}

(***************************************************************************)
(* Parent entities (Zone, DhwZone, System) are identified by their         *)
(* controller and index; NoParent stands for None.                         *)
(***************************************************************************)
NoParent == [kind |-> None, ctl |-> None, idx |-> None]
Zone(c, i) == [kind |-> "Zone", ctl |-> c, idx |-> i]
DhwZone(c) == [kind |-> "DhwZone", ctl |-> c, idx |-> "HW"]
System(c) == [kind |-> "System", ctl |-> c, idx |-> "FF"]
ParentsOf(c) == {Zone(c, i) : i \in ZoneIdx} \cup {DhwZone(c), System(c)}
Parents == UNION {ParentsOf(c) : c \in DevIds}
Domains == {None, "FA", "FC"}

\* the installations of the model: the devices within radio range
Installations == {{"01:a", "12:a"}, {"01:a", "04:a"}, {"12:a", "04:a"}}

(***************************************************************************)
(* Messages: the source device, the verb, the code, the form of the three  *)
(* address slots (A: self,--,self  B: --,--,self  C: self,other,--) and    *)
(* payload["zone_idx"] (None when the payload carries none).               *)
(***************************************************************************)
NoMsg == [src |-> None, verb |-> None, code |-> None, form |-> None, zone_idx |-> None]
Payloads == {<<"1F09", None>>, <<"1030", "00">>, <<"30C9", "00">>, <<"30C9", "01">>}
VerbForms == {<<"I", "A">>, <<"I", "B">>, <<"RP", "C">>}
Msgs == {[src |-> d, verb |-> vf[1], code |-> p[1], form |-> vf[2], zone_idx |-> p[2]] :
            d \in DevIds, vf \in VerbForms, p \in Payloads}

VARIABLES
    dev,        \* per device: exists, _ctl, _parent, _domain_id, _iz_controller, _evo,
                \* and how many TCS objects were made for it
    kids,       \* per controller: ctl.devices
    zkids,      \* per parent entity: parent.devices
    err,        \* the exception the last operation raised, "none" if it returned
    last,       \* the last operation: its kind, device and message, the parent
                \* _set_parent was called with (sp)
    include,    \* gwy._include, the caller's allow-list
    eavesdrop,  \* gwy.config.enable_eavesdrop
    present     \* the devices within radio range

fabricVars == <<dev, kids, zkids, err, last, include, eavesdrop, present>>

VARIABLES
    supported,  \* OtbGateway._supported_msg: per msg_id "absent", None, "True", "False"
    seen,       \* OtbGateway._opentherm_msg: whether a RP/3220 of the msg_id is cached
    otSent,     \* the msg_ids the last operation sent a RQ/3220 for
    otLast,     \* the last operation on the bridge, with its message or flag
    ids_as,     \* how protocol.opentherm writes the *_MSG_IDS: "hex" strings or "int"
    run,        \* history: the consecutive Unknown-DataId replies last seen
    flipped,    \* history: whether a reply that marks the msg_id unsupported was seen
    struck      \* history: whether two consecutive Unknown-DataId replies were seen

otbVars == <<supported, seen, otSent, otLast, ids_as, run, flipped, struck>>

VARIABLES
    state_1fc9, \* Fakeable._1fc9_state of the binding device, "unset" before any bind
    pend,       \* the transport's callbacks, by the header they wait for
    events,     \* what the binding device has sent, and the user callbacks it has run
    berr,       \* the exception the last bind call raised, or "none"
    binds,      \* how many bind calls were made
    blast       \* the last operation of the handshake

bindVars == <<state_1fc9, pend, events, berr, binds, blast>>

VARIABLES
    port,       \* gwy.pkt_protocol is a PacketProtocolPort (a serial port, not a log file)
    tasks,      \* per device: the tasks of gwy._tasks that run its _discover, in order
    klass_as,   \* per device: the class it was given other than by its type (the klass
                \* argument of create_device, an assignment to __class__), or None
    faked,      \* the ids whose gwy._include entry says faked (such a device has _faked)
    hgi_faked,  \* the gateway device's _faked_bdr, _faked_ext, _faked_thm
    handed      \* the message the gateway device last handed to a faked device

gwyVars == <<port, tasks, klass_as, faked, hgi_faked, handed>>

VARIABLES
    queue,      \* the pending commands, in the order they were enqueued
    inflight,   \* the command that was written and is awaited, or NoEntry
    phase,      \* "idle", "awaiting_echo" or "awaiting_reply"
    sent,       \* the commands enqueued so far, in order: the n-th is command n
    wcount,     \* how many serial writes the gateway has made
    writes,     \* per command: its serial writes
    outcome,    \* per command: "none", "done" or "expired"
    calls,      \* per command: what its callback was called with, in order
    command,    \* the client's command: "execute" or "monitor"
    polls,      \* the periodic tasks poll_device has created (gwy._tasks)
    running,    \* VirtualRF._task is running
    tx,         \* per port: the data written to the port, not yet read by VirtualRF
    rx,         \* per port: the data VirtualRF has written to it, not yet read (the
                \* device on the other port reads nothing and writes nothing)
    deliveries, \* the gateway's own packets handed to the entity layer, in order
    txlast      \* the last operation of the engine

txVars == <<queue, inflight, phase, sent, wcount, writes, outcome, calls, command, polls,
            running, tx, rx, deliveries, txlast>>
VARIABLES
    kwargs,     \* the options the execute command was given
    mpos,       \* where main() is: "start", "gather", "await" or "finished"
    scripts,    \* the tasks spawn_execute_scripts created that have not completed
    gwy_task,   \* the task of gwy.start(): "none", "running" or "cancelled"
    ended_via   \* how main() ended: "none", "CancelledError" or "SIGINT"

mainVars == <<kwargs, mpos, scripts, gwy_task, ended_via>>

VARIABLES
    cli,              \* the client's command: "monitor", "execute" or "listen"
    enforce,          \* gwy.config.enforce_allowlist
    disable_sending,  \* gwy.config.disable_sending
    send_cmd_checks,  \* whether Entity._send_cmd itself drops a command when sending
                      \* is disabled
    hcmds,            \* the commands the last handler has sent, as device and code
    faulty,           \* per device: the time left of its cool-off, 0 if not faulty
    dlast             \* the last packet the gateway had, and what became of it

dispVars == <<cli, enforce, disable_sending, send_cmd_checks, hcmds, faulty, dlast>>

VARIABLES
    zones,      \* the zones of a TCS schema as written in YAML: a value per key
    verdict     \* "none", or what the validator made of the schema

schemaVars == <<zones, verdict>>

VARIABLES
    gwy_devices,        \* gwy.devices: the device objects, in the order they were made
    gwy_device_by_id,   \* gwy.device_by_id: the device object of an id, if any
    nobj                \* how many device objects were constructed, or begun

regVars == <<gwy_devices, gwy_device_by_id, nobj>>

VARIABLES
    execute_cmd,    \* kwargs["execute_cmd"]: whether it is given, and its tokens
    addrs_ok,       \* whether extract_addrs accepts what is not a device id
    xres,           \* what the last spawn_execute_cmd did, NoRun before it ran
    poll_devices,   \* kwargs["poll_devices"], the ids in order
    script_opts,    \* the script options of kwargs that are given
    gwy_tasks,      \* gwy._tasks: the objects in it, in order
    created,        \* the tasks loop.create_task() has made, in order
    spawner,        \* which of spawn_monitor_scripts, spawn_execute_scripts has run
    wrappers,       \* per script task: "absent", "awaiting", "returned", "raised"
    logged,         \* the scripts that have logged an error
    gather,         \* main's asyncio.gather: "none", "pending", "returned", "raised"
    wlast           \* the script whose fetch ended last, and how it ended

discVars == <<execute_cmd, addrs_ok, xres, poll_devices, script_opts, gwy_tasks, created,
              spawner, wrappers, logged, gather, wlast>>

VARIABLES
    chop_x,     \* binary_chop: its argument x
    chop_y,     \* binary_chop: its argument y
    freq,       \* binary_chop: freq, the frequency that is set
    result,     \* binary_chop: what check_reception returned last, -1 before any
    chop_pc     \* binary_chop: "loop" while it runs, "returned" after its return

chopVars == <<chop_x, chop_y, freq, result, chop_pc>>
vars == <<fabricVars, otbVars, bindVars, gwyVars, txVars, mainVars, dispVars, schemaVars, regVars, discVars, chopVars>>

\* spawn_execute_cmd has not run
NoRun == [err |-> "not run", sent |-> <<>>, warned |-> FALSE]

\* kwargs["execute_cmd"] is None or the empty string
NoString == [given |-> FALSE, tokens |-> <<>>]

\* kwargs["execute_cmd"] is a string of these tokens
String(c) == [given |-> TRUE, tokens |-> c]

\* no script's fetch has ended
NoFetch == [script |-> "None", outcome |-> "None"]

\* the options of the execute command: the scans, the options a task is made for, all
ScanOpts == {"scan_disc", "scan_full", "scan_hard", "scan_xxxx"}
TaskOpts == {"get_faults", "get_schedule", "set_schedule"} \cup ScanOpts
ExecOpts == {"execute_cmd"} \cup TaskOpts

\* the fetching scripts of spawn_execute_scripts
Fetchers == {"get_faults", "get_schedule", "set_schedule"}

\* no script is spawned
DiscIdle ==
    /\ execute_cmd = NoString
    /\ addrs_ok = TRUE
    /\ xres = NoRun
    /\ poll_devices = <<>>
    /\ script_opts = {}
    /\ gwy_tasks = <<>>
    /\ created = <<>>
    /\ spawner = "none"
    /\ wrappers = [w \in TaskOpts |-> "absent"]
    /\ logged = {}
    /\ gather = "none"
    /\ wlast = NoFetch

\* no frequency is searched for
ChopIdle ==
    /\ chop_x = 0
    /\ chop_y = 0
    /\ freq = 0
    /\ result = -1
    /\ chop_pc = "returned"

\* the registry of the gateway is not looked at
RegIdle ==
    /\ gwy_devices = <<>>
    /\ gwy_device_by_id = <<>>
    /\ nobj = 0

\* no schema is at hand
SchemaIdle ==
    /\ zones = <<>>
    /\ verdict = "none"

\* no packet has come
DispIdle ==
    /\ cli = "monitor"
    /\ enforce = FALSE
    /\ disable_sending = FALSE
    /\ send_cmd_checks = FALSE
    /\ hcmds = {}
    /\ faulty = <<>>
    /\ dlast = [op |-> "init"]

\* main() has not been called
MainIdle ==
    /\ kwargs = {}
    /\ mpos = "start"
    /\ scripts = {}
    /\ gwy_task = "none"
    /\ ended_via = "none"

NewDev == [exists |-> FALSE, ctl |-> None, parent |-> NoParent, domain |-> None,
           izc |-> None, evo |-> FALSE, made |-> 0]

Fabric == [dev |-> dev, kids |-> kids, zkids |-> zkids, err |-> "none", sp |-> NoParent]
Raise(F, e) == [F EXCEPT !.err = e]

(***************************************************************************)
(* DeviceBase                                                              *)
(***************************************************************************)

\* DeviceBase._is_controller
is_controller(F, d) ==
    IF F.dev[d].izc # None THEN F.dev[d].izc = "True"
    ELSE IF F.dev[d].ctl # None THEN F.dev[d].ctl = d
    ELSE FALSE

\* systems.create_system: one TCS per installation, further ones only for
\* controllers on the caller's allow-list
create_system(F, d) ==
    IF (\E o \in DOMAIN F.dev \ {d} : F.dev[o].evo) /\ d \notin include
    THEN Raise(F, "MultipleControllerError")
    ELSE [F EXCEPT !.dev[d].evo = TRUE, !.dev[d].made = @ + 1]

make_tcs_controller_noguard(F, d) ==
    [F EXCEPT !.dev[d].izc = "True", !.dev[d].evo = TRUE]

\* DeviceBase._make_tcs_controller
make_tcs_controller(F, d) ==
    LET F1 == [F EXCEPT !.dev[d].izc = "True"]
    IN  IF dev_type(d) \in TcsTypes /\ ~F1.dev[d].evo
        THEN create_system(F1, d)
        ELSE F1

set_ctl_replaces(F, d, c) ==
    IF F.dev[d].ctl = c THEN F
    ELSE IF is_controller(F, d) /\ klass(d) # "UFC" THEN F
    ELSE IF klass(c) # "CTL" /\ ~is_controller(F, c) THEN Raise(F, "TypeError")
    ELSE [F EXCEPT !.dev[d].ctl = c, !.kids[c] = Append(@, d)]

\* DeviceBase._set_ctl
set_ctl(F, d, c) ==
    IF F.dev[d].ctl = c THEN F
    ELSE IF is_controller(F, d) /\ klass(d) # "UFC" THEN F
    ELSE IF F.dev[d].ctl # None THEN Raise(F, "CorruptStateError")
    ELSE IF klass(c) # "CTL" /\ ~is_controller(F, c) THEN Raise(F, "TypeError")
    ELSE [F EXCEPT !.dev[d].ctl = c, !.kids[c] = Append(@, d)]

DeviceBase_handle_msg_swapped(F, d, m) ==
    IF m.src # d THEN Raise(F, "AssertionError")
    ELSE IF m.verb # "I" THEN F
    ELSE IF F.dev[d].izc # "True" /\ m.code \in CODE_ONLY_FROM_CTL
    THEN IF F.dev[d].izc = "False"
         THEN make_tcs_controller(F, d)
         ELSE F
    ELSE F

\* DeviceBase._handle_msg
DeviceBase_handle_msg(F, d, m) ==
    IF m.src # d THEN Raise(F, "AssertionError")
    ELSE IF m.verb # "I" THEN F
    ELSE IF F.dev[d].izc # "True" /\ m.code \in CODE_ONLY_FROM_CTL
    THEN IF F.dev[d].izc = None
         THEN make_tcs_controller(F, d)
         ELSE F    \* was False: logged only
    ELSE F

(***************************************************************************)
(* Device                                                                  *)
(***************************************************************************)

set_parent_changed_never(cur, p) == FALSE

\* Device._set_parent, the write-once test
set_parent_changed(cur, p) == cur # NoParent /\ cur # p

set_parent_assigns_first(F0, d, p, domain) ==
    LET F == [F0 EXCEPT !.sp = p] IN
    IF set_parent_changed(F.dev[d].parent, p) THEN Raise(F, "CorruptStateError")
    ELSE IF p.kind = "Zone" /\ domain # None /\ domain # p.idx THEN Raise(F, "TypeError")
    ELSE IF p.kind = "DhwZone" /\ domain \notin {"F9", "FA"} THEN Raise(F, "TypeError")
    ELSE IF p.kind = "System" /\ domain # "FC" THEN Raise(F, "TypeError")
    ELSE IF p.kind \notin {"Zone", "DhwZone", "System"} THEN Raise(F, "TypeError")
    ELSE LET dom == IF p.kind = "Zone" THEN p.idx ELSE domain
             F1 == set_ctl([F EXCEPT !.dev[d].parent = p, !.dev[d].domain = dom], d, p.ctl)
         IN  IF F1.err # "none" THEN F1
             ELSE [F1 EXCEPT !.zkids[p] = IF \E i \in 1..Len(@) : @[i] = d
                                          THEN @ ELSE Append(@, d)]

\* Device._set_parent
set_parent(F0, d, p, domain) ==
    LET F == [F0 EXCEPT !.sp = p] IN
    IF set_parent_changed(F.dev[d].parent, p) THEN Raise(F, "CorruptStateError")
    ELSE IF p.kind = "Zone" /\ domain # None /\ domain # p.idx THEN Raise(F, "TypeError")
    ELSE IF p.kind = "DhwZone" /\ domain \notin {"F9", "FA"} THEN Raise(F, "TypeError")
    ELSE IF p.kind = "System" /\ domain # "FC" THEN Raise(F, "TypeError")
    ELSE IF p.kind \notin {"Zone", "DhwZone", "System"} THEN Raise(F, "TypeError")
    ELSE LET F1 == set_ctl(F, d, p.ctl)
             dom == IF p.kind = "Zone" THEN p.idx ELSE domain
         IN  IF F1.err # "none" THEN F1
             ELSE [F1 EXCEPT !.dev[d].parent = p,
                             !.dev[d].domain = dom,
                             !.zkids[p] = IF \E i \in 1..Len(@) : @[i] = d
                                          THEN @ ELSE Append(@, d)]

eavesdrop_binds_whatever_config(F, d, m) ==
    /\ F.dev[d].ctl # None
    /\ m.zone_idx # None
    /\ dev_type(m.src) # "01"

\* Device._handle_msg, the test for binding the device to the zone it names
eavesdrop_binds(F, d, m) ==
    /\ eavesdrop
    /\ F.dev[d].ctl # None
    /\ m.zone_idx # None
    /\ dev_type(m.src) # "01"

\* Device._handle_msg (what it does to the class of a type-30 device is promoted_klass)
Device_handle_msg(F, d, m) ==
    LET F1 == DeviceBase_handle_msg(F, d, m)
    IN  IF F1.err # "none" THEN F1
        ELSE IF ~eavesdrop_binds(F1, d, m) THEN F1
        ELSE IF F1.dev[d].ctl = None \/ ~F1.dev[F1.dev[d].ctl].evo
             THEN Raise(F1, "AttributeError")   \* self._ctl._evo is None
             ELSE set_parent(F1, d, Zone(F1.dev[d].ctl, m.zone_idx), None)

\* Controller._handle_msg (no 000C among the codes of the model; the TCS's own
\* handler, systems.py, keeps no state of the devices)
Controller_handle_msg(F, d, m) == Device_handle_msg(F, d, m)

Thermostat_handle_msg_redecides(F, d, m) ==
    LET F1 == Device_handle_msg(F, d, m)
    IN  IF F1.err # "none" THEN F1
        ELSE IF m.verb # "I" THEN F1
        ELSE IF m.form = "A"
        THEN [F1 EXCEPT !.dev[d].izc = "False"]
        ELSE IF m.form = "B"
        THEN IF F1.dev[d].izc = None
             THEN make_tcs_controller([F1 EXCEPT !.dev[d].izc = "True"], d)
             ELSE F1
        ELSE F1

\* Thermostat._handle_msg
Thermostat_handle_msg(F, d, m) ==
    LET F1 == Device_handle_msg(F, d, m)
    IN  IF F1.err # "none" THEN F1
        ELSE IF m.verb # "I" THEN F1
        ELSE IF m.form = "A"
        THEN IF F1.dev[d].izc = None
             THEN [F1 EXCEPT !.dev[d].izc = "False"]
             ELSE F1    \* was True: logged only
        ELSE IF m.form = "B"
        THEN IF F1.dev[d].izc = None
             THEN make_tcs_controller([F1 EXCEPT !.dev[d].izc = "True"], d)
             ELSE F1    \* was False: logged only
        ELSE F1

\* the handler of the device's class
handle_msg(F, d, m) ==
    CASE klass(d) = "CTL" -> Controller_handle_msg(F, d, m)
      [] klass(d) = "THM" -> Thermostat_handle_msg(F, d, m)
      [] OTHER -> Device_handle_msg(F, d, m)

\* DeviceBase.__init__ and the __init__ of the device's class
init_device(F, d) ==
    IF F.dev[d].exists THEN Raise(F, "LookupError")
    ELSE LET F1 == [F EXCEPT !.dev[d] = [NewDev EXCEPT !.exists = TRUE]]
         IN  CASE klass(d) = "CTL" ->
                      make_tcs_controller(
                          [F1 EXCEPT !.dev[d].ctl = d, !.dev[d].domain = "FF"], d)
               [] klass(d) = "HGI" -> [F1 EXCEPT !.dev[d].domain = "FF"]
               [] klass(d) = "OTB" -> [F1 EXCEPT !.dev[d].domain = "FC"]
               [] klass(d) = "DHW" -> [F1 EXCEPT !.dev[d].domain = "FA"]
               [] OTHER -> F1

(***************************************************************************)
(* The operations of the entity fabric                                     *)
(***************************************************************************)
Op(op, d, m) == [op |-> op, d |-> d, m |-> m]

Commit(F, o) ==
    /\ dev' = F.dev
    /\ kids' = F.kids
    /\ zkids' = F.zkids
    /\ err' = F.err
    /\ last' = [op |-> o.op, d |-> o.d, m |-> o.m, sp |-> F.sp]
    /\ UNCHANGED <<include, eavesdrop, present>>
    /\ UNCHANGED <<otbVars, bindVars, gwyVars, txVars, mainVars, dispVars, schemaVars, regVars, discVars, chopVars>>

\* create_device(gwy, dev_id), the gateway reading a packet log
CreateDevice(d) ==
    /\ d \in present
    /\ ~port
    /\ Commit(init_device(Fabric, d), Op("create", d, NoMsg))

\* a message from device m.src is routed to that device
HandleMsg(m) ==
    /\ dev[m.src].exists
    /\ Commit(handle_msg(Fabric, m.src, m), Op("msg", m.src, m))

\* dev._set_parent(parent, domain), as called by the zones and systems
SetParent(d, p, dom) ==
    /\ dev[d].exists
    /\ dev[p.ctl].exists /\ dev[p.ctl].evo
    /\ Commit(set_parent(Fabric, d, p, dom), Op("set_parent", d, NoMsg))

\* dev._set_ctl(ctl), as called when a device is got with a ctl_id
SetCtl(d, c) ==
    /\ dev[d].exists /\ dev[c].exists
    /\ Commit(set_ctl(Fabric, d, c), Op("set_ctl", d, NoMsg))

FabricInit ==
    /\ dev = [d \in DevIds |-> NewDev]
    /\ kids = [d \in DevIds |-> <<>>]
    /\ zkids = [p \in Parents |-> <<>>]
    /\ err = "none"
    /\ last = [op |-> "init", d |-> None, m |-> NoMsg, sp |-> NoParent]
    /\ include \in {{}, {"01:a", "12:a"}}
    /\ eavesdrop \in BOOLEAN
    /\ present \in Installations

(***************************************************************************)
(* OtbGateway: the OpenTherm bridge 10:a                                   *)
(***************************************************************************)

\* protocol.opentherm: SCHEMA_MSG_IDS, PARAMS_MSG_IDS, STATUS_MSG_IDS (one of each),
\* named here by the two hex digits of the msg_id
SCHEMA_MSG_IDS == {"03"}
PARAMS_MSG_IDS == {"38"}
STATUS_MSG_IDS == {"12"}
MsgIds == SCHEMA_MSG_IDS \cup PARAMS_MSG_IDS \cup STATUS_MSG_IDS

\* a RP/3220 from the bridge: payload[MSG_TYPE], payload[MSG_ID] as two hex digits,
\* and the last four hex digits of the packet's payload (the value)
MsgTypes == {"Read-Ack", "Data-Invalid", "Unknown-DataId", "-reserved-"}
Values == {"0000", "1980", "47AB"}
OtMsgs == [msg_id : MsgIds, msg_type : MsgTypes, value : Values]
NoOtMsg == [msg_id |-> None, msg_type |-> None, value |-> None]
\* Discover.SCHEMA, Discover.PARAMS, Discover.STATUS; a discover_flag is a set of
\* them: one of them, or Discover.ALL
Flags == {"SCHEMA", "PARAMS", "STATUS"}
DiscoverFlags == {{f} : f \in Flags} \cup {Flags}

\* the history counts consecutive Unknown-DataId replies up to here
MaxRun == 2

\* OtbGateway._handle_msg: payload[4:] == "121980" or payload[6:] == "47AB"
is_sentinel(m) ==
    \/ m.msg_id = "12" /\ m.value = "1980"
    \/ m.value = "47AB"

\* OtbGateway._handle_msg: msg_type not in (Data-Invalid, Unknown-DataId, -reserved-)
ot_type_supported(t) == t \notin {"Data-Invalid", "Unknown-DataId", "-reserved-"}

ot_handle_msg_at_once(S, m) ==
    [S EXCEPT ![m.msg_id] =
        IF is_sentinel(m) \/ ~ot_type_supported(m.msg_type) THEN "False" ELSE "True"]

\* OtbGateway._handle_msg, what it does to _supported_msg
ot_handle_msg(S, m) ==
    IF is_sentinel(m)
    THEN IF S[m.msg_id] = "absent" THEN [S EXCEPT ![m.msg_id] = None]
         ELSE IF S[m.msg_id] = None THEN [S EXCEPT ![m.msg_id] = "False"]
         ELSE S
    ELSE [S EXCEPT ![m.msg_id] = IF ot_type_supported(m.msg_type) THEN "True" ELSE "False"]

\* the replies the specification counts as marking a msg_id unsupported
Unsupporting(m) == m.msg_type \in {"Data-Invalid", "Unknown-DataId"} \/ is_sentinel(m)

\* dict.get(m), m an element of a *_MSG_IDS tuple: _supported_msg and _opentherm_msg
\* are keyed by f"{msg_id:02X}", so that an integer m is no key of theirs
supported_get(S, id) == IF ids_as = "hex" /\ S[id] # "absent" THEN S[id] ELSE None
opentherm_msg_get(id) == ids_as = "hex" /\ seen[id]

\* OtbGateway._discover: self._supported_msg.get(m) is not False
ot_wanted(S, id) == supported_get(S, id) # "False"

\* OtbGateway._discover: not self._opentherm_msg.get(m) or self._opentherm_msg[m]._expired
ot_stale(id, expired) == ~opentherm_msg_get(id) \/ id \in expired

\* OtbGateway._discover: the msg_ids it sends a RQ/3220 for; expired are the cached
\* replies that have expired by now
ot_discover(S, flag, expired) ==
    LET schema == IF "SCHEMA" \in flag
                  THEN {id \in SCHEMA_MSG_IDS : ot_wanted(S, id) /\ ot_stale(id, expired)}
                  ELSE {}
        params == IF "PARAMS" \in flag
                  THEN {id \in PARAMS_MSG_IDS : ot_wanted(S, id) /\ ot_stale(id, expired)}
                  ELSE {}
        status == IF "STATUS" \in flag
                  THEN {id \in STATUS_MSG_IDS : ot_wanted(S, id)}
                  ELSE {}
    IN schema \cup params \cup status

\* the bridge handles a RP/3220 it has sent (Entity._handle_msg caches the reply)
OtbHandleMsg(m) ==
    /\ supported' = ot_handle_msg(supported, m)
    /\ seen' = [seen EXCEPT ![m.msg_id] = TRUE]
    /\ otSent' = {}
    /\ otLast' = [op |-> "msg", m |-> m, flag |-> None]
    /\ run' = [run EXCEPT ![m.msg_id] =
                  IF m.msg_type = "Unknown-DataId" THEN IF @ < MaxRun THEN @ + 1 ELSE @ ELSE 0]
    /\ flipped' = [flipped EXCEPT ![m.msg_id] = @ \/ Unsupporting(m)]
    /\ struck' = [struck EXCEPT ![m.msg_id] = @ \/ run'[m.msg_id] >= 2]
    /\ UNCHANGED ids_as
    /\ UNCHANGED <<fabricVars, bindVars, gwyVars, txVars, mainVars, dispVars, schemaVars, regVars, discVars, chopVars>>

\* a discovery cycle of the bridge: OtbGateway._discover(discover_flag)
OtbDiscover(flag) ==
    /\ \E expired \in SUBSET {id \in MsgIds : seen[id]} :
          otSent' = ot_discover(supported, flag, expired)
    /\ otLast' = [op |-> "discover", m |-> NoOtMsg, flag |-> flag]
    /\ UNCHANGED <<supported, seen, ids_as, run, flipped, struck>>
    /\ UNCHANGED <<fabricVars, bindVars, gwyVars, txVars, mainVars, dispVars, schemaVars, regVars, discVars, chopVars>>

\* scan_003(gwy, dev_id): a RQ/3220 for every msg_id
Scan003 ==
    /\ otSent' = MsgIds
    /\ otLast' = [op |-> "scan_003", m |-> NoOtMsg, flag |-> None]
    /\ UNCHANGED <<supported, seen, ids_as, run, flipped, struck>>
    /\ UNCHANGED <<fabricVars, bindVars, gwyVars, txVars, mainVars, dispVars, schemaVars, regVars, discVars, chopVars>>

\* scan_full(gwy, dev_id): for 3220, a RQ for the data_ids "00" and "03"
ScanFull ==
    /\ otSent' = {"00", "03"} \cap MsgIds
    /\ otLast' = [op |-> "scan_full", m |-> NoOtMsg, flag |-> None]
    /\ UNCHANGED <<supported, seen, ids_as, run, flipped, struck>>
    /\ UNCHANGED <<fabricVars, bindVars, gwyVars, txVars, mainVars, dispVars, schemaVars, regVars, discVars, chopVars>>

\* OtbGateway.__init__
OtbInit ==
    /\ supported = [id \in MsgIds |-> "absent"]
    /\ seen = [id \in MsgIds |-> FALSE]
    /\ otSent = {}
    /\ otLast = [op |-> "init", m |-> NoOtMsg, flag |-> None]
    /\ ids_as \in {"hex", "int"}
    /\ run = [id \in MsgIds |-> 0]
    /\ flipped = [id \in MsgIds |-> FALSE]
    /\ struck = [id \in MsgIds |-> FALSE]

\* one installation, for the specifications that are not about the fabric
FabricIdle ==
    /\ dev = [d \in DevIds |-> NewDev]
    /\ kids = [d \in DevIds |-> <<>>]
    /\ zkids = [p \in Parents |-> <<>>]
    /\ err = "none"
    /\ last = [op |-> "init", d |-> None, m |-> NoMsg, sp |-> NoParent]
    /\ include = {}
    /\ eavesdrop = FALSE
    /\ present = {}

(***************************************************************************)
(* Fakeable: the binding handshake of the faked device 34:a                *)
(***************************************************************************)

Self == "34:a"
Peers == {"01:a", "01:b"}
BindCodes == {"30C9", "3EF0", "1FC9"}

\* Fakeable._bind_request: SUPPORTED_CODES = (_0002, _1260, _1290, _30C9)
SUPPORTED_CODES == {"0002", "1260", "1290", "30C9"}

\* the bind calls made before the model stops making them
MaxBinds == 2

\* a 1FC9 packet the transport hands to a callback; NoBindMsg is the None of a
\* callback that has expired
BindMsgs == {m \in [verb : {"I", "W"}, code : {"1FC9"}, src : Peers,
                     dst : Peers \cup {Self}] : m.dst \in {Self, m.src}}
NoBindMsg == [verb |-> None, code |-> None, src |-> None, dst |-> None]

\* the transport's callback table: the header of the offer's reply, the wildcard
\* "1FC9|I|NUL_DEVICE_ID", the header of the accept's reply
Headers == {"offer", "wild", "accept"}
NoCallback == [func |-> None, code |-> None, callback |-> FALSE, timeout |-> 0]
Callback(f, code, callback, t) ==
    [func |-> f, code |-> code, callback |-> callback, timeout |-> t]

Sent(verb, dst) == [ev |-> "send", verb |-> verb, peer |-> dst]
Called(src) == [ev |-> "callback", verb |-> None, peer |-> src]

Binding == [state |-> state_1fc9, pend |-> pend, events |-> events, err |-> "none"]

\* the callback the caller gave, if any
user_callback(B, callback, msg) ==
    IF callback THEN [B EXCEPT !.events = Append(@, Called(msg.src))] ELSE B

\* self._send_cmd(cmd)
send_cmd(B, verb, dst) == [B EXCEPT !.events = Append(@, Sent(verb, dst))]

bind_request_bind_confirm_callback_first(B, cb, msg) ==
    IF msg = NoBindMsg \/ msg.dst # Self THEN B
    ELSE send_cmd(user_callback(B, cb.callback, msg), "I", msg.src)

\* Fakeable._bind_request.bind_confirm
bind_request_bind_confirm(B, cb, msg) ==
    IF msg = NoBindMsg \/ msg.dst # Self THEN B
    ELSE user_callback(send_cmd(B, "I", msg.src), cb.callback, msg)

\* Fakeable._bind_waiting.bind_confirm
bind_waiting_bind_confirm(B, cb, msg) ==
    IF msg = NoBindMsg \/ msg.code # cb.code THEN B
    ELSE user_callback(B, cb.callback, msg)

bind_waiting_bind_respond_unguarded(B, cb, msg) ==
    [send_cmd(B, "W", msg.src) EXCEPT
        !.pend["accept"] = Callback("bind_waiting.bind_confirm", cb.code, cb.callback, 3)]

\* Fakeable._bind_waiting.bind_respond
bind_waiting_bind_respond(B, cb, msg) ==
    IF msg = NoBindMsg THEN B
    ELSE [send_cmd(B, "W", msg.src) EXCEPT
            !.pend["accept"] = Callback("bind_waiting.bind_confirm", cb.code, cb.callback, 3)]

\* Fakeable._bind_request
bind_request(B, code, callback) ==
    IF code \notin SUPPORTED_CODES THEN [B EXCEPT !.err = "AssertionError"]
    ELSE [send_cmd([B EXCEPT !.state = "request"], "I", None) EXCEPT
            !.pend["offer"] = Callback("bind_request.bind_confirm", code, callback, 3)]

\* Fakeable._bind_waiting
bind_waiting(B, code, callback) ==
    [B EXCEPT !.state = "waiting",
              !.pend["wild"] = Callback("bind_waiting.bind_respond", code, callback, 300)]

\* the transport runs a callback with a message, or with None when it has expired
invoke(B, cb, msg) ==
    CASE cb.func = "bind_request.bind_confirm" -> bind_request_bind_confirm(B, cb, msg)
      [] cb.func = "bind_waiting.bind_respond" -> bind_waiting_bind_respond(B, cb, msg)
      [] cb.func = "bind_waiting.bind_confirm" -> bind_waiting_bind_confirm(B, cb, msg)

\* the packets a header stands for
matches(hdr, msg) ==
    CASE hdr = "offer" -> msg.verb = "W"
      [] hdr = "wild" -> msg.verb = "I" /\ msg.dst = msg.src
      [] hdr = "accept" -> msg.verb = "I" /\ msg.dst = Self

BindOp(op, hdr, cb, msg) == [op |-> op, hdr |-> hdr, cb |-> cb, msg |-> msg]

BindCommit(B, o) ==
    /\ state_1fc9' = B.state
    /\ pend' = B.pend
    /\ events' = B.events
    /\ berr' = B.err
    /\ blast' = o
    /\ UNCHANGED <<fabricVars, otbVars, gwyVars, txVars, mainVars, dispVars, schemaVars, regVars, discVars, chopVars>>

\* Weather._bind, Temperature._bind: self._bind_request(code, callback)
BindRequest(code, callback) ==
    /\ binds < MaxBinds
    /\ binds' = binds + 1
    /\ BindCommit(bind_request(Binding, code, callback),
                  BindOp("request", None, Callback(None, code, callback, 0), NoBindMsg))

\* BdrSwitch._bind: self._bind_waiting(code)
BindWaiting(code, callback) ==
    /\ binds < MaxBinds
    /\ binds' = binds + 1
    /\ BindCommit(bind_waiting(Binding, code, callback),
                  BindOp("waiting", None, Callback(None, code, callback, 0), NoBindMsg))

\* a packet arrives that a callback waits for: the callback is run once, with it
Deliver(hdr, msg) ==
    /\ pend[hdr] # NoCallback
    /\ matches(hdr, msg)
    /\ UNCHANGED binds
    /\ BindCommit(invoke([Binding EXCEPT !.pend[hdr] = NoCallback], pend[hdr], msg),
                  BindOp("deliver", hdr, pend[hdr], msg))

\* a callback's TIMEOUT passes with no such packet: the callback is run with None
Expire(hdr) ==
    /\ pend[hdr] # NoCallback
    /\ UNCHANGED binds
    /\ BindCommit(invoke([Binding EXCEPT !.pend[hdr] = NoCallback], pend[hdr], NoBindMsg),
                  BindOp("timeout", hdr, pend[hdr], NoBindMsg))

\* the orders in which a shutdown can come to the pending callbacks
Orders == {o \in [1..3 -> Headers] : \A i, j \in 1..3 : o[i] = o[j] => i = j}

\* gateway shutdown: each pending callback, in turn, is dropped and run with None
RECURSIVE cancel_all(_, _)
cancel_all(B, hs) ==
    IF hs = <<>> THEN B
    ELSE LET h == Head(hs)
         IN  cancel_all(IF B.pend[h] = NoCallback THEN B
                        ELSE invoke([B EXCEPT !.pend[h] = NoCallback], B.pend[h], NoBindMsg),
                        Tail(hs))

\* the gateway is shut down: the callbacks that were pending are named in the order
\* they were run
Shutdown(order) ==
    /\ blast.op # "shutdown"
    /\ UNCHANGED binds
    /\ BindCommit(cancel_all(Binding, order),
                  BindOp("shutdown", SelectSeq(order, LAMBDA h : pend[h] # NoCallback),
                         NoCallback, NoBindMsg))

BindInit ==
    /\ state_1fc9 = "unset"
    /\ pend = [h \in Headers |-> NoCallback]
    /\ events = <<>>
    /\ berr = "none"
    /\ binds = 0
    /\ blast = BindOp("init", None, NoCallback, NoBindMsg)

(***************************************************************************)
(* The gateway device 18:a, the devices it fakes, and the devices created  *)
(* with a serial port: a thermostat 03:a, a type-30 device, a bridge 10:a  *)
(***************************************************************************)
GwyIds == {"18:a", "03:a", "30:a", "10:a"}
Hgi == "18:a"
DEFAULT_THM_ID == "03:a"

\* the messages of the gateway device and of the type-30 device, as <<verb, code>>;
\* all are of the form self,other,-- and carry no zone_idx
HgiSigs == {<<"I", "1F09">>, <<"I", "30C9">>, <<"RQ", "3220">>}
Sigs30 == {<<"I", "31DA">>, <<"RQ", "31DA">>, <<"RQ", "3220">>, <<"W", "313F">>, <<"I", "30C9">>}
GwyMsg(d, sig) == [src |-> d, verb |-> sig[1], code |-> sig[2], form |-> "C", zone_idx |-> None]
GwyMsgs == {GwyMsg("18:a", sig) : sig \in HgiSigs} \cup {GwyMsg("30:a", sig) : sig \in Sigs30}

\* the klass argument of create_device: None, or DEV for a type-30 device that is to
\* be classed by what it sends
KlassArgs(d) == IF d = "30:a" THEN {None, "DEV"} ELSE {None}

\* randint(10, 20), its two ends
Delays == {10, 20}

Task(d, flag, delay, period) == [d |-> d, flag |-> flag, delay |-> delay, period |-> period]

\* the class of the device object
class_of(d) == IF klass_as[d] # None THEN klass_as[d] ELSE klass(d)

params_period_same(k) == 3600 * 6

\* OtbGateway._start_discovery and DeviceBase._start_discovery: the period of PARAMS
params_period(k) == IF k = "OTB" THEN 3600 ELSE 3600 * 6

\* _start_discovery: the three gwy._add_task calls
start_discovery(k, d, delay) ==
    << Task(d, "SCHEMA", 0, 3600 * 24),
       Task(d, "PARAMS", delay, params_period(k)),
       Task(d, "STATUS", delay + 1, 60) >>

starts_discovery_always(p) == TRUE

\* create_device: isinstance(gwy.pkt_protocol, PacketProtocolPort)
starts_discovery(p) == p

\* create_device, what it adds to gwy._tasks for a device it has constructed
create_device_tasks(k, d, delay) ==
    IF starts_discovery(port) THEN start_discovery(k, d, delay) ELSE <<>>

promoted_klass_again(k, d, m) ==
    IF dev_type(d) = "30"
    THEN IF m.code \in {"31D9", "31DA", "31E0"} /\ m.verb \in {"I", "RP"} THEN "FAN"
         ELSE IF m.code \in {"0006", "0418", "3220"} /\ m.verb = "RQ" THEN "RFG"
         ELSE IF m.code \in {"313F"} /\ m.verb = "W" THEN "RFG"
         ELSE k
    ELSE k

\* Device._handle_msg: the class of the device after the message, k its class before
promoted_klass(k, d, m) ==
    IF k = "DEV" /\ dev_type(d) = "30"
    THEN IF m.code \in {"31D9", "31DA", "31E0"} /\ m.verb \in {"I", "RP"} THEN "FAN"
         ELSE IF m.code \in {"0006", "0418", "3220"} /\ m.verb = "RQ" THEN "RFG"
         ELSE IF m.code \in {"313F"} /\ m.verb = "W" THEN "RFG"
         ELSE k
    ELSE k

\* HgiGateway._handle_msg.fake_addrs: its two statements compare, they assign nothing
fake_addrs(m, faked_dev, self) == m

NoHand == [to |-> None, src |-> None]

\* HgiGateway._handle_msg: the faked device the message is forwarded to, if any
\* (3EF0 to _faked_bdr, 0002 to _faked_ext, 30C9 to _faked_thm)
forwarded_to(m) ==
    CASE m.code = "3EF0" -> hgi_faked.bdr
      [] m.code = "0002" -> hgi_faked.ext
      [] m.code = "30C9" -> hgi_faked.thm
      [] OTHER -> None

\* HgiGateway._handle_msg
Hgi_handle_msg(F, d, m) ==
    LET F1 == DeviceBase_handle_msg(F, d, m)
    IN  IF F1.err # "none" THEN F1
        ELSE IF forwarded_to(m) = None THEN F1
        ELSE handle_msg(F1, forwarded_to(m), fake_addrs(m, forwarded_to(m), d))

\* the handler of the class the device object has now
gwy_handle_msg(F, d, m) ==
    CASE class_of(d) = "HGI" -> Hgi_handle_msg(F, d, m)
      [] class_of(d) = "THM" -> Thermostat_handle_msg(F, d, m)
      [] class_of(d) = "RFG" -> DeviceBase_handle_msg(F, d, m)
      [] OTHER -> Device_handle_msg(F, d, m)

\* HgiGateway._set_ctl does nothing; the other classes have DeviceBase._set_ctl
gwy_set_ctl(F, d, c) == IF class_of(d) = "HGI" THEN F ELSE set_ctl(F, d, c)

Without(seq, x) == SelectSeq(seq, LAMBDA y : y # x)
InSeq(seq, x) == \E i \in 1..Len(seq) : seq[i] = x

\* HgiGateway._create_fake_dev, the block that destroys the device self.device_by_id
\* has under this id
destroy_dev(F, self, d) ==
    IF ~InSeq(F.kids[self], d) THEN F
    ELSE LET c == F.dev[d].ctl
             F1 == IF c = None THEN F
                   ELSE [F EXCEPT !.kids[c] = Without(@, d), !.dev[d].ctl = None]
         IN  IF ~InSeq(F1.kids[self], d)
             THEN Raise(F1, "KeyError")        \* del self.device_by_id[dev.id]
             ELSE [F1 EXCEPT !.kids[self] = Without(@, d)]

\* HgiGateway.create_fake_thm: the id it fakes
fake_thm_id(self, device_id) ==
    IF device_id \in {self, None} THEN DEFAULT_THM_ID ELSE device_id

\* HgiGateway._create_fake_dev up to dev = self._get_device(device_id), which gets the
\* device gwy.device_by_id has, or creates it
create_fake_dev(F, self, type, d) ==
    IF dev_type(d) # type THEN Raise(F, "TypeError")
    ELSE LET F1 == destroy_dev(F, self, d)
         IN  IF F1.err # "none" \/ F1.dev[d].exists THEN F1 ELSE init_device(F1, d)

GwyCommit(F, o) ==
    /\ dev' = F.dev
    /\ kids' = F.kids
    /\ zkids' = F.zkids
    /\ err' = F.err
    /\ last' = [op |-> o.op, d |-> o.d, m |-> o.m, sp |-> F.sp]
    /\ UNCHANGED <<eavesdrop, present>>
    /\ UNCHANGED <<otbVars, txVars, mainVars, dispVars, schemaVars, regVars, discVars, chopVars>>

\* create_device(gwy, dev_id, klass), the gateway on a serial port or reading a log
GwyCreateDevice(d, k, delay) ==
    LET F == init_device(Fabric, d)
    IN  /\ GwyCommit(F, Op("create", d, NoMsg))
        /\ klass_as' = IF F.err = "none" THEN [klass_as EXCEPT ![d] = k] ELSE klass_as
        /\ tasks' = IF F.err = "none"
                    THEN [tasks EXCEPT ![d] = @ \o create_device_tasks(
                                                  IF k = None THEN klass(d) ELSE k, d, delay)]
                    ELSE tasks
        /\ UNCHANGED <<include, port, faked, hgi_faked, handed, bindVars>>

\* a message from device m.src is routed to that device
GwyHandleMsg(m) ==
    LET d == m.src
        F == gwy_handle_msg(Fabric, d, m)
        to == IF class_of(d) = "HGI" /\ DeviceBase_handle_msg(Fabric, d, m).err = "none"
              THEN forwarded_to(m) ELSE None
    IN  /\ dev[d].exists
        /\ GwyCommit(F, Op("msg", d, m))
        /\ klass_as' = IF class_of(d) \notin {"HGI", "RFG"}    \* the subclasses of Device
                          /\ DeviceBase_handle_msg(Fabric, d, m).err = "none"
                          /\ promoted_klass(class_of(d), d, m) # class_of(d)
                       THEN [klass_as EXCEPT ![d] = promoted_klass(class_of(d), d, m)]
                       ELSE klass_as
        /\ handed' = IF to = None THEN NoHand
                     ELSE [to |-> to, src |-> fake_addrs(m, to, d).src]
        /\ UNCHANGED <<include, port, tasks, faked, hgi_faked, bindVars>>

\* dev._set_ctl(ctl), as called when a device is got with a ctl_id
GwySetCtl(d, c) ==
    /\ dev[d].exists /\ dev[c].exists
    /\ GwyCommit(gwy_set_ctl(Fabric, d, c), Op("set_ctl", d, NoMsg))
    /\ UNCHANGED <<include, bindVars, gwyVars>>

\* HgiGateway.create_fake_thm(device_id): _create_fake_dev("03", device_id), then
\* dev._make_fake(bind=True), which is Temperature._bind
CreateFakeThm(device_id, delay) ==
    LET d == fake_thm_id(Hgi, device_id)
        F == create_fake_dev(Fabric, Hgi, "03", d)
        ok == F.err = "none"
        B == IF ok THEN bind_request(Binding, "30C9", TRUE) ELSE Binding
    IN  /\ dev[Hgi].exists
        /\ binds < MaxBinds
        /\ GwyCommit(F, Op("create_fake", d, NoMsg))
        /\ tasks' = IF ok /\ ~dev[d].exists
                    THEN [tasks EXCEPT ![d] = @ \o create_device_tasks(klass(d), d, delay)]
                    ELSE tasks
        /\ include' = IF ok THEN include \cup {d} ELSE include
        /\ faked' = IF ok THEN faked \cup {d} ELSE faked
        /\ hgi_faked' = IF ok /\ d = DEFAULT_THM_ID THEN [hgi_faked EXCEPT !.thm = d]
                        ELSE hgi_faked
        /\ binds' = IF ok THEN binds + 1 ELSE binds
        /\ state_1fc9' = B.state
        /\ pend' = B.pend
        /\ events' = B.events
        /\ berr' = B.err
        /\ blast' = IF ok THEN BindOp("request", None, Callback(None, "30C9", TRUE, 0), NoBindMsg)
                    ELSE blast
        /\ UNCHANGED <<port, klass_as, handed>>

\* the gateway of the other specifications reads a packet log and fakes nothing
GwyIdle ==
    /\ port = FALSE
    /\ tasks = [d \in DevIds |-> <<>>]
    /\ klass_as = [d \in DevIds |-> None]
    /\ faked = {}
    /\ hgi_faked = [bdr |-> None, ext |-> None, thm |-> None]
    /\ handed = NoHand

GwyInit ==
    /\ dev = [d \in GwyIds |-> NewDev]
    /\ kids = [d \in GwyIds |-> <<>>]
    /\ zkids = [p \in Parents |-> <<>>]
    /\ err = "none"
    /\ last = [op |-> "init", d |-> None, m |-> NoMsg, sp |-> NoParent]
    /\ include = {}
    /\ eavesdrop = FALSE
    /\ present = {}
    /\ port \in BOOLEAN
    /\ tasks = [d \in GwyIds |-> <<>>]
    /\ klass_as = [d \in GwyIds |-> None]
    /\ faked = {}
    /\ hgi_faked = [bdr |-> None, ext |-> None, thm |-> None]
    /\ handed = NoHand

(***************************************************************************)
(* The transmit engine, the scripts that queue commands on it, and the     *)
(* virtual RF network the gateway's serial port is on                      *)
(***************************************************************************)

\* periodic(count=0) runs for ever: each task is followed for this many intervals
MaxTicks == 1
\* scan_hard: range(0x4000), cut to this many codes
MaxCodes == 2

\* command.Priority, lowest first
prio_rank(p) ==
    CASE p = "LOW" -> 0
      [] p = "DEFAULT" -> 1
      [] p = "HIGH" -> 2

\* Command(verb, dev_id, code, payload, qos={priority, retries}), and whether the
\* caller gave a callback
Cmd(script, verb, code, prio, retries, cb) ==
    [script |-> script, verb |-> verb, code |-> code, prio |-> prio,
     retries |-> retries, cb |-> cb]

scan_full_begin_low ==
    << Cmd("scan_full", "I", "7FFF begins", "LOW", 3, FALSE),
       Cmd("scan_full", "RQ", "0016", "DEFAULT", 5, FALSE),
       Cmd("scan_full", "RQ", "0004", "DEFAULT", 1, FALSE),
       Cmd("scan_full", "RQ", "0150", "DEFAULT", 2, FALSE),
       Cmd("scan_full", "I", "7FFF ended", "LOW", 3, FALSE) >>

\* scan_full: the commands it sends, in order (one code of RAMSES_CODES, one of the
\* two difficult codes)
scan_full ==
    << Cmd("scan_full", "I", "7FFF begins", "HIGH", 3, FALSE),
       Cmd("scan_full", "RQ", "0016", "DEFAULT", 5, FALSE),
       Cmd("scan_full", "RQ", "0004", "DEFAULT", 1, FALSE),
       Cmd("scan_full", "RQ", "0150", "DEFAULT", 2, FALSE),
       Cmd("scan_full", "I", "7FFF ended", "LOW", 3, FALSE) >>

\* scan_hard: the commands it sends, in order
scan_hard ==
    [i \in 1..MaxCodes |->
        Cmd("scan_hard", "RQ", <<"0000", "0001", "0002", "0003">>[i], "LOW", 0, FALSE)]

poll_qos_retry == [priority |-> "LOW", retries |-> 1]

\* poll_device: qos
poll_qos == [priority |-> "LOW", retries |-> 0]

\* poll_device: the commands of the periodic tasks it creates, for the codes 0016 and
\* 1FC9 with the payloads 00 and 0000 (code and payload here)
poll_device ==
    { Cmd("poll_device", "RQ", code, poll_qos.priority, poll_qos.retries, FALSE) :
         code \in {"0016 00", "0016 0000", "1FC9 00", "1FC9 0000"} }

\* the RQ/0418 of the fault log, sent with a callback and the default qos
get_fault_log == Cmd("get_faults", "RQ", "0418", "DEFAULT", 3, TRUE)

\* the commands the scripts can enqueue in all
MaxCmds == Len(scan_full) + Len(scan_hard) + 1 + Cardinality(poll_device) * MaxTicks

NoCmd == Cmd(None, None, None, None, 0, FALSE)
Entry(n, cmd, left) == [n |-> n, cmd |-> cmd, left |-> left]
NoEntry == Entry(0, NoCmd, 0)

\* the ports of the virtual RF network: the gateway's and another device's
Ports == {"g", "o"}
\* what is on the wire: the w-th serial write of the gateway (of command n), or a
\* device's reply to command n
Pkt(from, w, n) == [port |-> from, w |-> w, n |-> n]


rf_write_twice(data, p, q) == data \o data

rf_write_to_first(data, p, q) == IF q = "g" THEN data ELSE <<>>

\* VirtualRF._run: what is written to port q of the data read from port p
rf_write(data, p, q) == data

\* gwy.send_cmd(cmd) for each command of cmds, in order: each joins the queue with all
\* its retries left
gwy_send_cmds(q, s, cmds) ==
    q \o [i \in 1..Len(cmds) |-> Entry(Len(s) + i, cmds[i], cmds[i].retries)]

\* the head of the queue: the highest priority, the earliest enqueued of those
head(q) ==
    CHOOSE i \in 1..Len(q) :
       \A j \in 1..Len(q) :
          \/ prio_rank(q[i].cmd.prio) > prio_rank(q[j].cmd.prio)
          \/ prio_rank(q[i].cmd.prio) = prio_rank(q[j].cmd.prio) /\ q[i].n <= q[j].n

\* a timer of the command in flight has expired: with a retry left the command is
\* requeued and the retry used up, else it has failed
expired(e) == IF e.left > 0 THEN "requeue" ELSE "fail"

TxOp(op, n) == [op |-> op, n |-> n]

\* how many times a command was enqueued
times_sent(cmd) == Cardinality({i \in 1..Len(sent) : sent[i] = cmd})

Enqueue(cmds, o) ==
    /\ times_sent(cmds[1]) = 0 \/ o = "periodic"
    /\ queue' = gwy_send_cmds(queue, sent, cmds)
    /\ sent' = sent \o cmds
    /\ txlast' = TxOp(o, Len(sent) + 1)
    /\ UNCHANGED <<inflight, phase, wcount, writes, outcome, calls, command, running,
                   tx, rx, deliveries>>
    /\ UNCHANGED <<fabricVars, otbVars, bindVars, gwyVars, mainVars, dispVars, schemaVars, regVars, discVars, chopVars>>

\* spawn_execute_scripts: scan_full(gwy, dev_id)
TxScanFull ==
    /\ command = "execute"
    /\ Enqueue(scan_full, "scan_full")
    /\ UNCHANGED polls

\* spawn_execute_scripts: scan_hard(gwy, dev_id)
TxScanHard ==
    /\ command = "execute"
    /\ Enqueue(scan_hard, "scan_hard")
    /\ UNCHANGED polls

\* poll_device(gwy, dev_id): the periodic tasks are created and registered
PollDevice ==
    /\ command = "monitor"
    /\ polls = {}
    /\ polls' = poll_device
    /\ txlast' = TxOp("poll_device", 0)
    /\ UNCHANGED <<queue, inflight, phase, sent, wcount, writes, outcome, calls,
                   command, running, tx, rx, deliveries>>
    /\ UNCHANGED <<fabricVars, otbVars, bindVars, gwyVars, mainVars, dispVars, schemaVars, regVars, discVars, chopVars>>

\* periodic(gwy, cmd, count=0): the interval has passed once more
Periodic(cmd) ==
    /\ cmd \in polls
    /\ times_sent(cmd) < MaxTicks
    /\ Enqueue(<<cmd>>, "periodic")
    /\ UNCHANGED polls

\* spawn_execute_scripts: get_faults(gwy, ctl_id), the fault log is asked for
GetFaults ==
    /\ command = "execute"
    /\ Enqueue(<<get_fault_log>>, "get_faults")
    /\ UNCHANGED polls

\* the engine writes the head of the queue to the serial port and awaits its echo
TxWrite ==
    /\ phase = "idle"
    /\ queue # <<>>
    /\ LET i == head(queue)
           e == queue[i]
       IN  /\ queue' = [j \in 1..(Len(queue) - 1) |-> IF j < i THEN queue[j] ELSE queue[j + 1]]
           /\ inflight' = e
           /\ phase' = "awaiting_echo"
           /\ wcount' = wcount + 1
           /\ writes' = [writes EXCEPT ![e.n] = @ + 1]
           /\ tx' = [tx EXCEPT !["g"] = Append(@, Pkt("g", wcount + 1, e.n))]
           /\ txlast' = TxOp("write", e.n)
    /\ UNCHANGED <<sent, outcome, calls, command, polls, running, rx, deliveries>>
    /\ UNCHANGED <<fabricVars, otbVars, bindVars, gwyVars, mainVars, dispVars, schemaVars, regVars, discVars, chopVars>>

\* VirtualRF._run, one port that is ready: its data is read and written to the ports
RfRun(p) ==
    /\ running
    /\ tx[p] # <<>>
    /\ tx' = [tx EXCEPT ![p] = <<>>]
    /\ rx' = [q \in DOMAIN rx |-> rx[q] \o rf_write(tx[p], p, q)]
    /\ txlast' = TxOp("rf", 0)
    /\ UNCHANGED <<queue, inflight, phase, sent, wcount, writes, outcome, calls, command,
                   polls, running, deliveries>>
    /\ UNCHANGED <<fabricVars, otbVars, bindVars, gwyVars, mainVars, dispVars, schemaVars, regVars, discVars, chopVars>>

\* the engine ends the command in flight
finish(res, arg) ==
    /\ inflight' = NoEntry
    /\ phase' = "idle"
    /\ outcome' = [outcome EXCEPT ![inflight.n] = res]
    /\ calls' = IF inflight.cmd.cb THEN [calls EXCEPT ![inflight.n] = Append(@, arg)]
                ELSE calls

\* the gateway reads a packet from its serial port: the echo of the command in flight,
\* the reply to it, or a packet that is neither
Receive ==
    /\ rx["g"] # <<>>
    /\ LET pkt == Head(rx["g"])
       IN  /\ rx' = [rx EXCEPT !["g"] = Tail(@)]
           /\ txlast' = TxOp("receive", pkt.n)
           /\ deliveries' = IF pkt.port = "g" THEN Append(deliveries, pkt.w) ELSE deliveries
           /\ IF pkt.port = "g" /\ phase = "awaiting_echo" /\ pkt.n = inflight.n
              THEN IF inflight.cmd.verb = "RQ"
                   THEN /\ phase' = "awaiting_reply"
                        /\ UNCHANGED <<inflight, outcome, calls>>
                   ELSE finish("done", "msg")
              ELSE IF pkt.port = "o" /\ phase = "awaiting_reply" /\ pkt.n = inflight.n
              THEN finish("done", "msg")
              ELSE UNCHANGED <<inflight, phase, outcome, calls>>
    /\ UNCHANGED <<queue, sent, wcount, writes, command, polls, running, tx>>
    /\ UNCHANGED <<fabricVars, otbVars, bindVars, gwyVars, mainVars, dispVars, schemaVars, regVars, discVars, chopVars>>

\* a timer expires: the echo timer (3 s) when nothing returns what is written (the
\* network returns it within its 5 ms poll when it runs), or the reply timer
Expire_timer ==
    /\ phase # "idle"
    /\ phase = "awaiting_echo" => ~running
    /\ txlast' = TxOp("expire", inflight.n)
    /\ IF expired(inflight) = "requeue"
       THEN /\ queue' = Append(queue, Entry(inflight.n, inflight.cmd, inflight.left - 1))
            /\ inflight' = NoEntry
            /\ phase' = "idle"
            /\ UNCHANGED <<outcome, calls>>
       ELSE /\ finish("expired", None)
            /\ UNCHANGED queue
    /\ UNCHANGED <<sent, wcount, writes, command, polls, running, tx, rx, deliveries>>
    /\ UNCHANGED <<fabricVars, otbVars, bindVars, gwyVars, mainVars, dispVars, schemaVars, regVars, discVars, chopVars>>

\* no command was queued, nothing written; the network is not started
TxIdle ==
    /\ queue = <<>>
    /\ inflight = NoEntry
    /\ phase = "idle"
    /\ sent = <<>>
    /\ wcount = 0
    /\ writes = [n \in 1..MaxCmds |-> 0]
    /\ outcome = [n \in 1..MaxCmds |-> "none"]
    /\ calls = [n \in 1..MaxCmds |-> <<>>]
    /\ command = "monitor"
    /\ polls = {}
    /\ running = FALSE
    /\ tx = [p \in Ports |-> <<>>]
    /\ rx = [p \in Ports |-> <<>>]
    /\ deliveries = <<>>
    /\ txlast = TxOp("init", 0)

\* VirtualRF.__init__, and start() called or not
TxInit ==
    /\ queue = <<>>
    /\ inflight = NoEntry
    /\ phase = "idle"
    /\ sent = <<>>
    /\ wcount = 0
    /\ writes = [n \in 1..MaxCmds |-> 0]
    /\ outcome = [n \in 1..MaxCmds |-> "none"]
    /\ calls = [n \in 1..MaxCmds |-> <<>>]
    /\ command \in {"execute", "monitor"}
    /\ polls = {}
    /\ running \in BOOLEAN
    /\ tx = [p \in Ports |-> <<>>]
    /\ rx = [p \in Ports |-> <<>>]
    /\ deliveries = <<>>
    /\ txlast = TxOp("init", 0)

Init == FabricInit /\ OtbInit /\ ids_as = "hex" /\ BindInit /\ GwyIdle /\ TxIdle /\ MainIdle /\ DispIdle /\ SchemaIdle /\ RegIdle /\ DiscIdle /\ ChopIdle

Next ==
    \/ \E d \in DevIds : CreateDevice(d)
    \/ \E m \in Msgs : HandleMsg(m)
    \/ \E d \in DevIds, p \in Parents, dom \in Domains : SetParent(d, p, dom)
    \/ \E d \in DevIds, c \in DevIds : SetCtl(d, c)

Spec == Init /\ [][Next]_vars

InitOtb == FabricIdle /\ OtbInit /\ BindInit /\ GwyIdle /\ TxIdle /\ MainIdle /\ DispIdle /\ SchemaIdle /\ RegIdle /\ DiscIdle /\ ChopIdle

NextOtb ==
    \/ \E m \in OtMsgs : OtbHandleMsg(m)
    \/ \E flag \in DiscoverFlags : OtbDiscover(flag)
    \/ Scan003
    \/ ScanFull

SpecOtb == InitOtb /\ [][NextOtb]_vars

\* the bridge only hears replies
NextSentinel == \E m \in OtMsgs : OtbHandleMsg(m)

SpecSentinel == InitOtb /\ [][NextSentinel]_vars

InitBind == FabricIdle /\ OtbInit /\ ids_as = "hex" /\ BindInit /\ GwyIdle /\ TxIdle /\ MainIdle /\ DispIdle /\ SchemaIdle /\ RegIdle /\ DiscIdle /\ ChopIdle

NextBind ==
    \/ \E code \in BindCodes, callback \in BOOLEAN : BindRequest(code, callback)
    \/ \E code \in BindCodes, callback \in BOOLEAN : BindWaiting(code, callback)
    \/ \E hdr \in Headers, msg \in BindMsgs : Deliver(hdr, msg)
    \/ \E hdr \in Headers : Expire(hdr)

SpecBind == InitBind /\ [][NextBind]_vars

\* the handshake with a gateway that is shut down at some time, and does no more then
NextStop ==
    \/ blast.op # "shutdown" /\ NextBind
    \/ \E order \in Orders : Shutdown(order)

SpecStop == InitBind /\ [][NextStop]_vars

(***************************************************************************)
(* Faking, and the _bind of the fakeable classes, for the device Self      *)
(***************************************************************************)
FakeableKlasses == {"EXT", "THM", "BDR"}

fakeable_bind_unchecked(B, is_faked) == B

\* Fakeable._bind
fakeable_bind(B, is_faked) ==
    IF ~is_faked THEN [B EXCEPT !.err = "RuntimeError"] ELSE B

\* Weather._bind, Temperature._bind, RelayDemand._bind
klass_bind(B, k, is_faked) ==
    LET B1 == fakeable_bind(B, is_faked)
    IN  IF B1.err # "none" THEN B1
        ELSE CASE k = "EXT" -> bind_request(B1, "0002", FALSE)
               [] k = "THM" -> bind_request(B1, "30C9", TRUE)
               [] k = "BDR" -> bind_waiting(B1, "3EF0", FALSE)

FakeCommit(B, o) ==
    /\ state_1fc9' = B.state
    /\ pend' = B.pend
    /\ events' = B.events
    /\ berr' = B.err
    /\ blast' = o
    /\ UNCHANGED <<dev, kids, zkids, err, last, eavesdrop, present>>
    /\ UNCHANGED <<port, tasks, klass_as, hgi_faked, handed>>
    /\ UNCHANGED <<otbVars, txVars, mainVars, dispVars, schemaVars, regVars, discVars, chopVars>>

\* self._bind(), the device being of a fakeable class
Bind(k) ==
    /\ binds < MaxBinds
    /\ binds' = binds + 1
    /\ FakeCommit(klass_bind(Binding, k, Self \in faked),
                  BindOp("bind", None, Callback(None, k, FALSE, 0), NoBindMsg))
    /\ UNCHANGED <<faked, include>>

\* Fakeable._make_fake(bind)
MakeFake(k, bind) ==
    /\ bind => binds < MaxBinds
    /\ binds' = IF bind THEN binds + 1 ELSE binds
    /\ faked' = faked \cup {Self}
    /\ include' = IF Self \in faked THEN include ELSE include \cup {Self}
    /\ FakeCommit(IF bind THEN klass_bind(Binding, k, TRUE) ELSE Binding,
                  BindOp("make_fake", None, Callback(None, k, bind, 0), NoBindMsg))

\* the device was made faked, if its entry of the allow-list says so
InitFake ==
    /\ faked \in {{}, {Self}}
    /\ include = faked
    /\ dev = [d \in DevIds |-> NewDev]
    /\ kids = [d \in DevIds |-> <<>>]
    /\ zkids = [p \in Parents |-> <<>>]
    /\ err = "none"
    /\ last = [op |-> "init", d |-> None, m |-> NoMsg, sp |-> NoParent]
    /\ eavesdrop = FALSE
    /\ present = {}
    /\ port = FALSE
    /\ tasks = [d \in DevIds |-> <<>>]
    /\ klass_as = [d \in DevIds |-> None]
    /\ hgi_faked = [bdr |-> None, ext |-> None, thm |-> None]
    /\ handed = NoHand
    /\ OtbInit /\ ids_as = "hex" /\ BindInit /\ TxIdle /\ MainIdle /\ DispIdle /\ SchemaIdle /\ RegIdle /\ DiscIdle /\ ChopIdle

NextFake ==
    \/ \E k \in FakeableKlasses : Bind(k)
    \/ \E k \in FakeableKlasses, bind \in BOOLEAN : MakeFake(k, bind)
    \/ \E hdr \in Headers, msg \in BindMsgs : Deliver(hdr, msg)
    \/ \E hdr \in Headers : Expire(hdr)

SpecFake == InitFake /\ [][NextFake]_vars

InitGwy == GwyInit /\ OtbInit /\ ids_as = "hex" /\ BindInit /\ TxIdle /\ MainIdle /\ DispIdle /\ SchemaIdle /\ RegIdle /\ DiscIdle /\ ChopIdle

NextGwy ==
    \/ \E d \in GwyIds, delay \in Delays : \E k \in KlassArgs(d) : GwyCreateDevice(d, k, delay)
    \/ \E m \in GwyMsgs : GwyHandleMsg(m)
    \/ \E d \in {"18:a", "03:a"}, c \in {"18:a", "30:a"} : GwySetCtl(d, c)
    \/ \E device_id \in {None, "18:a", "03:a", "30:a"}, delay \in Delays :
           CreateFakeThm(device_id, delay)

SpecGwy == InitGwy /\ [][NextGwy]_vars

InitTx == FabricIdle /\ OtbInit /\ ids_as = "hex" /\ BindInit /\ GwyIdle /\ TxInit /\ MainIdle /\ DispIdle /\ SchemaIdle /\ RegIdle /\ DiscIdle /\ ChopIdle

NextTx ==
    \/ TxScanFull
    \/ TxScanHard
    \/ PollDevice
    \/ \E cmd \in poll_device : Periodic(cmd)
    \/ GetFaults
    \/ TxWrite
    \/ \E p \in Ports : RfRun(p)
    \/ Receive
    \/ Expire_timer

SpecTx == InitTx /\ [][NextTx]_vars

\* An installation of three devices, where a device can have one controller and be
\* given a parent of another: the messages are those that tell a controller, from the
\* two devices that can be one, and the radiator valve is the device that is bound
SyncMsgs == {m \in Msgs : m.code = "1F09" /\ m.verb = "I" /\ m.src # "04:a"}

InitThree ==
    /\ dev = [d \in DevIds |-> NewDev]
    /\ kids = [d \in DevIds |-> <<>>]
    /\ zkids = [p \in Parents |-> <<>>]
    /\ err = "none"
    /\ last = [op |-> "init", d |-> None, m |-> NoMsg, sp |-> NoParent]
    /\ include = {}
    /\ eavesdrop \in BOOLEAN
    /\ present = DevIds
    /\ OtbInit /\ ids_as = "hex" /\ BindInit /\ GwyIdle /\ TxIdle /\ MainIdle /\ DispIdle /\ SchemaIdle /\ RegIdle /\ DiscIdle /\ ChopIdle

NextThree ==
    \/ \E d \in DevIds : CreateDevice(d)
    \/ \E m \in SyncMsgs : HandleMsg(m)
    \/ \E p \in Parents, dom \in Domains : SetParent("04:a", p, dom)
    \/ \E c \in DevIds : SetCtl("04:a", c)

SpecThree == InitThree /\ [][NextThree]_vars

(***************************************************************************)
(* VirtualRF on its own: three ports, a device on each that writes; what a *)
(* port has received stays in rx                                           *)
(***************************************************************************)
MaxWrites == 2
RfPorts == {"g", "o", "p"}

\* the data of port p among data
from_port(data, p) == SelectSeq(data, LAMBDA x : x.port = p)

\* how many writes the device on port p has made: those VirtualRF has read (it has
\* written them to rx) and those it has not
written(p) == Len(from_port(rx[p], p)) + Len(tx[p])

\* VirtualRF.start
RfStart ==
    /\ ~running
    /\ running' = TRUE
    /\ txlast' = TxOp("rf_start", 0)
    /\ UNCHANGED <<queue, inflight, phase, sent, wcount, writes, outcome, calls, command,
                   polls, tx, rx, deliveries>>
    /\ UNCHANGED <<fabricVars, otbVars, bindVars, gwyVars, mainVars, dispVars, schemaVars, regVars, discVars, chopVars>>

\* the device on port p writes to its serial port
RfPortWrite(p) ==
    /\ written(p) < MaxWrites
    /\ tx' = [tx EXCEPT ![p] = Append(@, Pkt(p, written(p) + 1, 0))]
    /\ txlast' = TxOp("port_write", 0)
    /\ UNCHANGED <<queue, inflight, phase, sent, wcount, writes, outcome, calls, command,
                   polls, running, rx, deliveries>>
    /\ UNCHANGED <<fabricVars, otbVars, bindVars, gwyVars, mainVars, dispVars, schemaVars, regVars, discVars, chopVars>>

InitRf ==
    /\ FabricIdle /\ OtbInit /\ ids_as = "hex" /\ BindInit /\ GwyIdle /\ MainIdle /\ DispIdle /\ SchemaIdle /\ RegIdle /\ DiscIdle /\ ChopIdle
    /\ queue = <<>>
    /\ inflight = NoEntry
    /\ phase = "idle"
    /\ sent = <<>>
    /\ wcount = 0
    /\ writes = [n \in 1..MaxCmds |-> 0]
    /\ outcome = [n \in 1..MaxCmds |-> "none"]
    /\ calls = [n \in 1..MaxCmds |-> <<>>]
    /\ command = "monitor"
    /\ polls = {}
    /\ running = FALSE
    /\ tx = [p \in RfPorts |-> <<>>]
    /\ rx = [p \in RfPorts |-> <<>>]
    /\ deliveries = <<>>
    /\ txlast = TxOp("init", 0)

NextRf ==
    \/ RfStart
    \/ \E p \in RfPorts : RfPortWrite(p)
    \/ \E p \in RfPorts : RfRun(p)

SpecRf == InitRf /\ [][NextRf]_vars

(***************************************************************************)
(* client.py: main() under the execute command, on a serial port           *)
(***************************************************************************)
\* spawn_execute_scripts: the options it creates a task for (execute_cmd is sent by
\* spawn_execute_cmd at once, without a task)
spawn_execute_scripts(kw) == kw \cap TaskOpts

\* main: whether the gateway's task is cancelled after the scripts were gathered
cancels_gateway(kw) == [cancel |-> kw \cap ({"execute_cmd"} \cup ScanOpts) = {}]

\* main: task = asyncio.create_task(gwy.start()); tasks = spawn_execute_scripts(...)
MainSpawn ==
    /\ mpos = "start"
    /\ gwy_task' = "running"
    /\ scripts' = spawn_execute_scripts(kwargs)
    /\ mpos' = "gather"
    /\ UNCHANGED <<kwargs, ended_via>>
    /\ UNCHANGED <<fabricVars, otbVars, bindVars, gwyVars, txVars, dispVars, schemaVars, regVars, discVars, chopVars>>

\* a script task runs to its end (the fetchers absorb ExpiredCallbackError, the scans
\* only enqueue commands)
ScriptDone(t) ==
    /\ t \in scripts
    /\ scripts' = scripts \ {t}
    /\ UNCHANGED <<kwargs, mpos, gwy_task, ended_via>>
    /\ UNCHANGED <<fabricVars, otbVars, bindVars, gwyVars, txVars, dispVars, schemaVars, regVars, discVars, chopVars>>

\* main: await asyncio.gather(*tasks) returns; task.cancel() if no command was given
MainGathered ==
    /\ mpos = "gather"
    /\ scripts = {}
    /\ gwy_task' = IF cancels_gateway(kwargs).cancel THEN "cancelled" ELSE gwy_task
    /\ mpos' = "await"
    /\ UNCHANGED <<kwargs, scripts, ended_via>>
    /\ UNCHANGED <<fabricVars, otbVars, bindVars, gwyVars, txVars, dispVars, schemaVars, regVars, discVars, chopVars>>

\* main: await task, which raises CancelledError once the task is cancelled; on a
\* serial port gwy.start() does not return
MainAwaited ==
    /\ mpos = "await"
    /\ gwy_task = "cancelled"
    /\ mpos' = "finished"
    /\ ended_via' = "CancelledError"
    /\ UNCHANGED <<kwargs, scripts, gwy_task>>
    /\ UNCHANGED <<fabricVars, otbVars, bindVars, gwyVars, txVars, dispVars, schemaVars, regVars, discVars, chopVars>>

\* the user interrupts the client (SIGINT): main's awaits raise, and main ends
Interrupt ==
    /\ mpos \in {"gather", "await"}
    /\ mpos' = "finished"
    /\ gwy_task' = "cancelled"
    /\ scripts' = {}
    /\ ended_via' = "SIGINT"
    /\ UNCHANGED kwargs
    /\ UNCHANGED <<fabricVars, otbVars, bindVars, gwyVars, txVars, dispVars, schemaVars, regVars, discVars, chopVars>>

InitMain ==
    /\ FabricIdle /\ OtbInit /\ ids_as = "hex" /\ BindInit /\ GwyIdle /\ TxIdle /\ DispIdle /\ SchemaIdle /\ RegIdle /\ DiscIdle /\ ChopIdle
    /\ kwargs \in SUBSET ExecOpts
    /\ mpos = "start"
    /\ scripts = {}
    /\ gwy_task = "none"
    /\ ended_via = "none"

NextMain ==
    \/ MainSpawn
    \/ \E t \in TaskOpts : ScriptDone(t)
    \/ MainGathered
    \/ MainAwaited
    \/ Interrupt

SpecMain == InitMain /\ [][NextMain]_vars

\* every step of main and of its tasks is taken in the end; an interrupt need not come
SpecMainLive ==
    /\ SpecMain
    /\ WF_vars(MainSpawn)
    /\ \A t \in TaskOpts : WF_vars(ScriptDone(t))
    /\ WF_vars(MainGathered)
    /\ WF_vars(MainAwaited)

(***************************************************************************)
(* The gateway's dispatch of the packets it reads to the handlers of the   *)
(* devices: a controller 01:a, a relay 13:a, a DHW sensor 07:a, a bridge   *)
(* 10:a, the gateway device 18:a, and a controller 01:z nobody has listed  *)
(***************************************************************************)
DispIds == {"01:a", "13:a", "07:a", "10:a", "18:a", "01:z"}
AllowList == {"01:a", "13:a", "07:a", "10:a", "18:a"}

\* for how long a faulty device is ignored
CoolOff == 1

\* the packets
NoOt == [msg_id |-> None, msg_type |-> None, value |-> None]
DMsg(src, verb, code, idx, ot) ==
    [src |-> src, verb |-> verb, code |-> code, form |-> "A", zone_idx |-> idx, ot |-> ot]
DispMsgs ==
    { DMsg("13:a", "I", "3EF0", None, NoOt),
      DMsg("07:a", "I", "1260", None, NoOt),
      DMsg("10:a", "RP", "3220", None,
           [msg_id |-> "12", msg_type |-> "Read-Ack", value |-> "0000"]),
      DMsg("01:a", "I", "1F09", None, NoOt),
      DMsg("18:a", "I", "3EF0", "FC", NoOt),
      DMsg("18:a", "RP", "3EF0", "FC", NoOt),
      DMsg("01:z", "I", "1F09", None, NoOt) }

\* client.py execute: the allow-list it hands to the gateway, the devices its options
\* name added
execute_allow(allowed, targets) == allowed \cup targets

execute_enforce_keeps(cfg, allowed) == cfg

\* client.py execute: ENFORCE_ALLOWLIST is set if there is an allow-list
execute_enforce(cfg, allowed) == cfg \/ allowed # {}

\* client.py listen: DISABLE_SENDING is set
listen_disable(c, cfg) == cfg \/ c = "listen"

\* what a handler has done: to the fabric, to the bridge's _supported_msg, and the
\* commands it has sent
Handled(F, S) == [F |-> F, S |-> S, out |-> {}]

\* Entity._send_cmd, Entity._make_cmd
entity_send_cmd(R, d, code) ==
    IF disable_sending /\ send_cmd_checks THEN R
    ELSE [R EXCEPT !.out = @ \cup {[d |-> d, code |-> code]}]

\* the values of the payload's domain_id and zone_idx
payload_domains(m) == {m.zone_idx} \ {None}

RelayDemand_handle_msg_passes(R, d, m) ==
    IF m.src = d THEN [R EXCEPT !.F = Device_handle_msg(R.F, d, m)]
    ELSE IF \/ disable_sending
            \/ d \notin faked
            \/ R.F.dev[d].domain = None
            \/ R.F.dev[d].domain \notin payload_domains(m)
    THEN R
    ELSE IF m.code = "0008" /\ m.verb = "RQ" THEN entity_send_cmd(R, d, "3EF0")
    ELSE IF m.code = "3EF0" /\ m.verb = "I" THEN entity_send_cmd(R, d, "0008")
    ELSE IF m.code = "3EF1" /\ m.verb = "RQ" THEN entity_send_cmd(R, d, "3EF1")
    ELSE R

\* RelayDemand._handle_msg
RelayDemand_handle_msg(R, d, m) ==
    IF m.src = d THEN [R EXCEPT !.F = Device_handle_msg(R.F, d, m)]
    ELSE IF \/ disable_sending
            \/ d \notin faked
            \/ R.F.dev[d].domain = None
            \/ R.F.dev[d].domain \notin payload_domains(m)
    THEN R
    ELSE IF m.code = "0008" /\ m.verb = "RQ" THEN entity_send_cmd(R, d, "3EF0")
    ELSE IF m.code = "0009" THEN R
    ELSE IF m.code = "3B00" /\ m.verb = "I" THEN R
    ELSE IF m.code = "3EF0" /\ m.verb = "I" THEN entity_send_cmd(R, d, "0008")
    ELSE IF m.code = "3EF1" /\ m.verb = "RQ" THEN entity_send_cmd(R, d, "3EF1")
    ELSE [R EXCEPT !.F = Raise(@, "RuntimeError")]    \* a raise with nothing to re-raise

\* Actuator._handle_msg, of a relay and of a bridge
Actuator_handle_msg(R, d, m) ==
    LET R1 == IF klass(d) = "BDR" THEN RelayDemand_handle_msg(R, d, m)
              ELSE [R EXCEPT !.F = Device_handle_msg(R.F, d, m)]
    IN  IF R1.F.err # "none" THEN R1
        ELSE IF klass(d) = "OTB" THEN R1
        ELSE IF m.code = "3EF0" /\ m.verb = "I" /\ d \notin faked /\ ~disable_sending
        THEN entity_send_cmd(R1, d, "3EF1")
        ELSE R1

\* DhwSensor._handle_msg
DhwSensor_handle_msg(R, d, m) ==
    LET R1 == [R EXCEPT !.F = Device_handle_msg(R.F, d, m)]
    IN  IF R1.F.err # "none" THEN R1
        ELSE IF m.code = "1260" /\ R1.F.dev[d].ctl # None /\ ~disable_sending
        THEN entity_send_cmd(R1, d, "1260")
        ELSE R1

\* OtbGateway._handle_msg: the code asked for after a reply of this msg_id; lucky is
\* randrange(6) being other than 0
ot_code(msg_id, lucky) ==
    IF ~lucky THEN None
    ELSE CASE msg_id = "12" -> "1300"
           [] msg_id = "38" -> "10A0"
           [] OTHER -> None

\* OtbGateway._handle_msg
OtbGateway_handle_msg(R, d, m, lucky) ==
    LET R1 == Actuator_handle_msg(R, d, m)
    IN  IF R1.F.err # "none" THEN R1
        ELSE IF m.code # "3220" THEN R1
        ELSE LET R2 == [R1 EXCEPT !.S = ot_handle_msg(@, m.ot)]
             IN  IF ot_code(m.ot.msg_id, lucky) # None
                 THEN entity_send_cmd(R2, d, ot_code(m.ot.msg_id, lucky))
                 ELSE R2

\* HgiGateway._handle_msg, with a relay among the devices it fakes
HgiGateway_handle_msg(R, d, m) ==
    LET R1 == [R EXCEPT !.F = DeviceBase_handle_msg(R.F, d, m)]
    IN  IF R1.F.err # "none" THEN R1
        ELSE IF forwarded_to(m) = None THEN R1
        ELSE Actuator_handle_msg(R1, forwarded_to(m), fake_addrs(m, forwarded_to(m), d))

\* the handler of the device's class
entity_handle_msg(R, d, m, lucky) ==
    CASE klass(d) = "BDR" -> Actuator_handle_msg(R, d, m)
      [] klass(d) = "DHW" -> DhwSensor_handle_msg(R, d, m)
      [] klass(d) = "OTB" -> OtbGateway_handle_msg(R, d, m, lucky)
      [] klass(d) = "HGI" -> HgiGateway_handle_msg(R, d, m)
      [] klass(d) = "CTL" -> [R EXCEPT !.F = Controller_handle_msg(R.F, d, m)]
      [] OTHER -> [R EXCEPT !.F = Device_handle_msg(R.F, d, m)]

\* the device of msg.src, created on demand; a DHW sensor can be made with its
\* controller
get_device(F, d, ctl) ==
    IF F.dev[d].exists THEN F
    ELSE IF ctl = None THEN init_device(F, d)
    ELSE LET F1 == init_device(F, d)
         IN  IF F1.err # "none" THEN F1 ELSE set_ctl(F1, d, ctl)

DOp(m, stage, parsed) == [op |-> "packet", m |-> m, stage |-> stage, parsed |-> parsed]

\* the gateway has a packet: with the allow-list enforced the packet of a source that
\* is not on it is dropped before it is parsed; the message of a faulty device is
\* ignored; else the message goes to the device of its source, and a handler that
\* raises makes that device faulty for the cool-off
\* the message goes to the device of its source, made if it has to be
dispatched(F, S, m, lucky, ctl) ==
    LET F0 == get_device(F, m.src, ctl)
    IN  IF F0.err # "none" THEN Handled(F0, S)
        ELSE entity_handle_msg(Handled(F0, S), m.src, m, lucky)

Dispatch(m, lucky, ctl) ==
    LET d == m.src
    IN  /\ ctl # None => /\ klass(d) = "DHW" /\ ~dev[d].exists
                         /\ dev[ctl].exists /\ is_controller(Fabric, ctl)
        /\ IF enforce /\ d \notin include
           THEN /\ dlast' = DOp(m, "dropped", FALSE)
                /\ hcmds' = {}
                /\ UNCHANGED <<dev, kids, zkids, err, last, supported, seen, faulty>>
           ELSE IF faulty[d] > 0
           THEN /\ dlast' = DOp(m, "ignored", TRUE)
                /\ hcmds' = {}
                /\ UNCHANGED <<dev, kids, zkids, err, last, supported, seen, faulty>>
           ELSE \E R \in {dispatched(Fabric, supported, m, lucky, ctl)} :
                /\ dev' = R.F.dev
                /\ kids' = R.F.kids
                /\ zkids' = R.F.zkids
                /\ err' = R.F.err
                /\ last' = [op |-> "msg", d |-> d, m |-> NoMsg, sp |-> R.F.sp]
                /\ supported' = R.S
                /\ seen' = IF klass(d) = "OTB" /\ m.code = "3220" /\ R.F.err = "none"
                           THEN [seen EXCEPT ![m.ot.msg_id] = TRUE] ELSE seen
                /\ hcmds' = R.out
                /\ faulty' = IF R.F.err # "none" THEN [faulty EXCEPT ![d] = CoolOff]
                             ELSE faulty
                /\ dlast' = DOp(m, IF R.F.err # "none" THEN "raised" ELSE "handled", TRUE)
        /\ UNCHANGED <<include, eavesdrop, present>>
        /\ UNCHANGED <<otSent, otLast, ids_as, run, flipped, struck>>
        /\ UNCHANGED <<cli, enforce, disable_sending, send_cmd_checks>>
        /\ UNCHANGED <<bindVars, gwyVars, txVars, mainVars, schemaVars, regVars, discVars, chopVars>>

\* time passes: the cool-off of every faulty device runs down
Tick ==
    /\ \E d \in DispIds : faulty[d] > 0
    /\ faulty' = [d \in DispIds |-> IF faulty[d] > 0 THEN faulty[d] - 1 ELSE 0]
    /\ dlast' = [op |-> "tick"]
    /\ UNCHANGED <<cli, enforce, disable_sending, send_cmd_checks, hcmds>>
    /\ UNCHANGED <<fabricVars, otbVars, bindVars, gwyVars, txVars, mainVars, schemaVars, regVars, discVars, chopVars>>

\* the configurations of the model: the client's command, the allow-list and the
\* enforcement of the configuration file, the devices the options of execute name
Config(c, allow, enf, targets) ==
    [cli |-> c, allow |-> allow, enforce |-> enf, targets |-> targets]
Configs ==
    { Config("monitor", {}, FALSE, {}),
      Config("monitor", AllowList, TRUE, {}),
      Config("execute", {}, FALSE, {}),
      Config("execute", {}, FALSE, {"01:a"}),
      Config("execute", AllowList, FALSE, {}),
      Config("listen", {}, FALSE, {}) }

\* the client's command and configuration; a relay the gateway device fakes has been
\* made, with a domain or without, and is on the allow-list with the gateway device
InitDisp ==
    /\ \E cfg \in Configs, dom \in {None, "FC"} :
       LET cfg_allow == cfg.allow
           targets == cfg.targets
           cfg_enforce == cfg.enforce
       IN
          /\ cli = cfg.cli
          /\ faked \in {{}, {"13:a"}}
          /\ include = (IF cli = "execute" THEN execute_allow(cfg_allow, targets)
                        ELSE cfg_allow)
                           \cup (IF faked # {} THEN {"13:a", "18:a"} ELSE {})
          /\ enforce = IF cli = "execute"
                       THEN execute_enforce(cfg_enforce, execute_allow(cfg_allow, targets))
                       ELSE cfg_enforce
          /\ disable_sending = listen_disable(cli, FALSE)
          /\ dev = [d \in DispIds |->
                       IF faked # {} /\ d = "13:a"
                       THEN [NewDev EXCEPT !.exists = TRUE, !.domain = dom]
                       ELSE IF faked # {} /\ d = "18:a"
                       THEN [NewDev EXCEPT !.exists = TRUE, !.domain = "FF"]
                       ELSE NewDev]
    /\ send_cmd_checks \in IF disable_sending THEN BOOLEAN ELSE {FALSE}
    /\ hcmds = {}
    /\ faulty = [d \in DispIds |-> 0]
    /\ dlast = [op |-> "init"]
    /\ kids = [d \in DispIds |-> <<>>]
    /\ zkids = [p \in Parents |-> <<>>]
    /\ err = "none"
    /\ last = [op |-> "init", d |-> None, m |-> NoMsg, sp |-> NoParent]
    /\ eavesdrop = FALSE
    /\ present = {}
    /\ port = FALSE
    /\ tasks = [d \in DispIds |-> <<>>]
    /\ klass_as = [d \in DispIds |-> None]
    /\ hgi_faked = [bdr |-> IF faked # {} THEN "13:a" ELSE None, ext |-> None, thm |-> None]
    /\ handed = NoHand
    /\ OtbInit /\ ids_as = "hex" /\ BindInit /\ TxIdle /\ MainIdle /\ SchemaIdle /\ RegIdle /\ DiscIdle /\ ChopIdle

NextDisp ==
    \/ \E m \in DispMsgs, lucky \in BOOLEAN, ctl \in {None, "01:a"} : Dispatch(m, lucky, ctl)
    \/ Tick

SpecDisp == InitDisp /\ [][NextDisp]_vars

(***************************************************************************)
(* The validation of the zones of a TCS schema, loaded from YAML           *)
(***************************************************************************)
MaxZones == 4

\* the keys of the zones as they are written: a text of two characters, in quotes or
\* not; and the values: an empty dictionary, or nothing
KeyTexts == { <<"0", "0">>, <<"0", "1">>, <<"0", "2">>, <<"0", "3">>,
              <<"0", "B">>, <<"0", "C">>, <<"1", "C">> }
YamlKey(text, quoted) == [text |-> text, quoted |-> quoted]
YamlKeys == {YamlKey(t, TRUE) : t \in KeyTexts} \cup {YamlKey(<<"0", "0">>, FALSE)}
YamlValues == {"{}", "null"}

OctDigits == {"0", "1", "2", "3", "4", "5", "6", "7"}
HexDigit(c) ==
    CASE c = "0" -> 0 [] c = "1" -> 1 [] c = "2" -> 2 [] c = "3" -> 3 [] c = "4" -> 4
      [] c = "5" -> 5 [] c = "6" -> 6 [] c = "7" -> 7 [] c = "8" -> 8 [] c = "9" -> 9
      [] c = "A" -> 10 [] c = "B" -> 11 [] c = "C" -> 12 [] c = "D" -> 13
      [] c = "E" -> 14 [] c = "F" -> 15

\* the keys of a loaded dictionary: a string or an integer
StrKey(t) == [type |-> "str", str |-> t, int |-> 0]
IntKey(n) == [type |-> "int", str |-> <<>>, int |-> n]

yaml_load_key_as_text(k) == StrKey(k.text)

\* yaml.safe_load of a key: a text in quotes is a string; a text of octal digits with
\* a leading 0 is an integer; any other text here is a string
yaml_load_key(k) ==
    IF ~k.quoted /\ k.text[1] = "0" /\ \A i \in 1..Len(k.text) : k.text[i] \in OctDigits
    THEN IntKey(8 * HexDigit(k.text[1]) + HexDigit(k.text[2]))
    ELSE StrKey(k.text)

\* yaml.safe_load of a value
yaml_load_value(v) == IF v = "{}" THEN "dict" ELSE None

\* yaml.safe_load of the zones: a dictionary
yaml_load(z) ==
    [k \in {yaml_load_key(y) : y \in DOMAIN z} |->
        yaml_load_value(z[CHOOSE y \in DOMAIN z : yaml_load_key(y) = k])]

\* a zone_idx: a string of two hexadecimal digits that is 00..0B
is_zone_idx(k) ==
    /\ k.type = "str"
    /\ Len(k.str) = 2
    /\ 16 * HexDigit(k.str[1]) + HexDigit(k.str[2]) < 12

\* the validator: every key a zone_idx, every value a dictionary
sch_zones(data) ==
    IF \A k \in DOMAIN data : is_zone_idx(k) /\ data[k] = "dict"
    THEN "accepted" ELSE "rejected"

\* the schema is validated
TestSchema ==
    /\ verdict = "none"
    /\ verdict' = sch_zones(yaml_load(zones))
    /\ UNCHANGED zones
    /\ UNCHANGED <<fabricVars, otbVars, bindVars, gwyVars, txVars, mainVars, dispVars, regVars, discVars, chopVars>>

\* a schema of some zones, no key of it written twice
InitSchema ==
    /\ \E S \in SUBSET YamlKeys :
          /\ Cardinality(S) <= MaxZones
          /\ zones \in [S -> YamlValues]
    /\ verdict = "none"
    /\ FabricIdle /\ OtbInit /\ ids_as = "hex" /\ BindInit /\ GwyIdle /\ TxIdle /\ MainIdle /\ DispIdle /\ RegIdle /\ DiscIdle /\ ChopIdle

NextSchema == TestSchema

SpecSchema == InitSchema /\ [][NextSchema]_vars

(***************************************************************************)
(* The gateway's registry of devices: a device object is its id and the    *)
(* number of its construction                                              *)
(***************************************************************************)
MaxObjs == 5

NoObj == [id |-> None, n |-> 0]
Obj(d, n) == [id |-> d, n |-> n]
Registry == [devices |-> gwy_devices, by_id |-> gwy_device_by_id, err |-> "none"]

register_appends_first(G, self) ==
    IF G.by_id[self.id] # NoObj
    THEN [G EXCEPT !.devices = Append(@, self), !.err = "LookupError"]
    ELSE [G EXCEPT !.by_id[self.id] = self, !.devices = Append(@, self)]

\* DeviceBase.__init__: the object is registered, unless its id is
register(G, self) ==
    IF G.by_id[self.id] # NoObj THEN [G EXCEPT !.err = "LookupError"]
    ELSE [G EXCEPT !.by_id[self.id] = self, !.devices = Append(@, self)]

\* DeviceBase.__init__ with the ctl argument, then the __init__ of the class
init_device_ctl(F, d, ctl) ==
    IF ctl = None THEN init_device(F, d)
    ELSE IF F.dev[d].exists THEN Raise(F, "LookupError")
    ELSE LET F1 == set_ctl([F EXCEPT !.dev[d] = [NewDev EXCEPT !.exists = TRUE]], d, ctl)
         IN  IF F1.err # "none" THEN F1
             ELSE CASE klass(d) = "OTB" -> [F1 EXCEPT !.dev[d].domain = "FC"]
                    [] klass(d) = "DHW" -> [F1 EXCEPT !.dev[d].domain = "FA"]
                    [] OTHER -> F1

\* create_device(gwy, dev_id, ctl=ctl), the gateway reading a packet log
RegCreateDevice(d, ctl) ==
    /\ nobj < MaxObjs
    /\ ctl # None => klass(d) # "CTL" /\ dev[ctl].exists
    /\ \E G \in {register(Registry, Obj(d, nobj + 1))} :
          /\ gwy_devices' = G.devices
          /\ gwy_device_by_id' = G.by_id
    /\ nobj' = nobj + 1
    /\ dev' = init_device_ctl(Fabric, d, ctl).dev
    /\ kids' = init_device_ctl(Fabric, d, ctl).kids
    /\ zkids' = init_device_ctl(Fabric, d, ctl).zkids
    /\ err' = init_device_ctl(Fabric, d, ctl).err
    /\ last' = [op |-> "create", d |-> d, m |-> NoMsg, sp |-> NoParent]
    /\ UNCHANGED <<include, eavesdrop, present>>
    /\ UNCHANGED <<otbVars, bindVars, gwyVars, txVars, mainVars, dispVars, schemaVars,
                   discVars, chopVars>>

InitReg ==
    /\ gwy_devices = <<>>
    /\ gwy_device_by_id = [d \in DevIds |-> NoObj]
    /\ nobj = 0
    /\ dev = [d \in DevIds |-> NewDev]
    /\ kids = [d \in DevIds |-> <<>>]
    /\ zkids = [p \in Parents |-> <<>>]
    /\ err = "none"
    /\ last = [op |-> "init", d |-> None, m |-> NoMsg, sp |-> NoParent]
    /\ include = {}
    /\ eavesdrop = FALSE
    /\ present = DevIds
    /\ OtbInit /\ ids_as = "hex" /\ BindInit /\ GwyIdle /\ TxIdle /\ MainIdle /\ DispIdle /\ SchemaIdle /\ DiscIdle /\ ChopIdle

NextReg ==
    \/ \E d \in DevIds, ctl \in DevIds \cup {None} : RegCreateDevice(d, ctl)
    \/ \E m \in SyncMsgs : HandleMsg(m)

SpecReg == InitReg /\ [][NextReg]_vars



(***************************************************************************)
(* The entity fabric: what the specification says of it                    *)
(*                                                                         *)
(* An operation repeated on its own result is a stuttering step; the same  *)
(* operation on the same fabric is also a step from the states any other   *)
(* operation leaves, so the step formulas below see it.                    *)
(***************************************************************************)

\* C1: the parent is write-once: once _set_parent has set a device's parent to P,
\* no operation changes it, and every _set_parent call (direct, or made by a
\* message handler) with another parent raises CorruptStateError.
C1_WriteOnceParent ==
    [][\A d \in DevIds :
          dev[d].parent # NoParent =>
              /\ dev'[d].parent = dev[d].parent
              /\ (last'.d = d /\ last'.sp # NoParent /\ last'.sp # dev[d].parent)
                    => err' = "CorruptStateError"]_vars

\* C1: a device with a parent was asked to take another one, and the call raised
C1_Witness ==
    /\ last.op = "set_parent"
    /\ dev[last.d].parent # NoParent
    /\ last.sp # dev[last.d].parent
    /\ err = "CorruptStateError"

C3_Original ==
    [][(/\ last'.op = "msg"
        /\ last'.m.verb = "I"
        /\ last'.m.code \in CODE_ONLY_FROM_CTL
        /\ last'.m.form = "A") =>
          dev'[last'.d].izc = "True" /\ dev'[last'.d].evo]_vars

\* C3: a device whose controller flag is undecided and that emits an I message of a
\* controller-only code, in any address form, is flagged a controller; a device of a
\* type other than 01, 12, 22, 23, 34 gets no TCS, and a device of one of these
\* types holds a TCS when the handler returns without an error.
C3_ControllerEavesdrop ==
    [][(/\ last'.op = "msg"
        /\ last'.m.verb = "I"
        /\ last'.m.code \in CODE_ONLY_FROM_CTL
        /\ dev[last'.d].izc = None) =>
          /\ dev'[last'.d].izc = "True"
          /\ dev_type(last'.d) \notin TcsTypes => ~dev'[last'.d].evo
          /\ (dev_type(last'.d) \in TcsTypes /\ err' = "none") => dev'[last'.d].evo]_vars

\* C3: a thermostat has emitted a controller-only code and now holds a TCS
C3_Witness ==
    /\ last.op = "msg"
    /\ last.m.verb = "I"
    /\ last.m.code \in CODE_ONLY_FROM_CTL
    /\ last.m.form = "A"
    /\ klass(last.d) = "THM"
    /\ dev[last.d].izc = "True"
    /\ dev[last.d].evo

\* C4: a message with a controller signature (an I of a controller-only code, or a
\* thermostat's I in form B) from a device recorded as not a controller, or with a
\* not-a-controller signature (a thermostat's I in form A) from a device recorded
\* as a controller, raises CorruptStateError.
C4_ContradictionRaises ==
    [][(/\ last'.op = "msg"
        /\ last'.m.verb = "I"
        /\ \/ /\ dev[last'.d].izc = "False"
              /\ \/ last'.m.code \in CODE_ONLY_FROM_CTL
                 \/ klass(last'.d) = "THM" /\ last'.m.form = "B"
           \/ /\ dev[last'.d].izc = "True"
              /\ klass(last'.d) = "THM"
              /\ last'.m.form = "A") =>
          err' = "CorruptStateError"]_vars

C6_SupportTracking ==
    [][/\ (otLast'.op = "msg" /\ Unsupporting(otLast'.m))
            => supported'[otLast'.m.msg_id] = "False"
       /\ otLast'.op = "discover"
            => \A id \in MsgIds : flipped[id] => id \notin otSent']_vars

\* C7: once two consecutive Unknown-DataId replies for a msg_id have been seen, no
\* RQ/3220 for it is sent again, whatever arrives and whichever discovery or scan
\* runs.
C7_OtbDeprecation ==
    [][\A id \in MsgIds : struck[id] => id \notin otSent']_vars

(***************************************************************************)
(* The binding handshake: what the specification says                      *)
(***************************************************************************)

\* the callback was handed the packet that completes its step of the handshake
Completes(o) ==
    /\ o.op = "deliver"
    /\ CASE o.cb.func = "bind_request.bind_confirm" -> o.msg.dst = Self
         [] o.cb.func = "bind_waiting.bind_respond" -> TRUE
         [] o.cb.func = "bind_waiting.bind_confirm" -> o.msg.code = o.cb.code

\* C8: when the binding device processes the packet that completes its step, its
\* binding state becomes the new state: "respond" on the offer, "confirm" on the
\* accept and on the final I/1FC9.
C8_StateAssigned ==
    [][Completes(blast') =>
          state_1fc9' = (IF blast'.cb.func = "bind_waiting.bind_respond"
                         THEN "respond" ELSE "confirm")]_vars

\* C9: when the callback of the offer is handed a W/1FC9 addressed to this device,
\* the device sends one I/1FC9 to the packet's source and then runs the user
\* callback, if there is one, for that source; no other step sends an I/1FC9 to a
\* peer, and the callback of the offer is gone afterwards.
C9_OfferorConfirms ==
    [][IF blast'.op = "deliver" /\ blast'.cb.func = "bind_request.bind_confirm"
          /\ blast'.msg.dst = Self
       THEN /\ events' = events \o <<Sent("I", blast'.msg.src)>>
                    \o (IF blast'.cb.callback THEN <<Called(blast'.msg.src)>> ELSE <<>>)
            /\ pend'[blast'.hdr] = NoCallback
       ELSE \A i \in 1..Len(events') :
               (events'[i].ev = "send" /\ events'[i].verb = "I" /\ events'[i].peer # None)
                  => i <= Len(events) /\ events[i] = events'[i]]_vars

\* the accept has arrived, the confirm was sent to its source and the user callback
\* has run after it
C9_Witness ==
    /\ blast.op = "deliver"
    /\ blast.cb.func = "bind_request.bind_confirm"
    /\ blast.msg.verb = "W"
    /\ blast.msg.dst = Self
    /\ Len(events) >= 3
    /\ events[Len(events) - 1] = Sent("I", blast.msg.src)
    /\ events[Len(events)] = Called(blast.msg.src)

\* C10: when a callback of the handshake expires, the binding state becomes FAILED
\* and the user callback is run with the failure.
C10_TimeoutFails ==
    [][blast'.op = "timeout" =>
          /\ state_1fc9' = "failed"
          /\ Len(events') = Len(events) + 1
          /\ events'[Len(events')].ev = "callback"]_vars

\* the codes a bind call may name: SUPPORTED_CODES of _bind_request; for _bind_waiting
\* the code of its commented SUPPORTED_CODES (0008) and the one BdrSwitch._bind binds
Bindable(op) ==
    IF op = "request" THEN SUPPORTED_CODES ELSE {"0008", "3EF0"}

\* C11: a bind call, on the offeror path or on the acceptor path, that names a code
\* outside the capability set raises, and has then neither written the binding state,
\* nor installed a callback, nor sent a packet.
C11_BindPrecondition ==
    [][(blast'.op \in {"request", "waiting"} /\ blast'.cb.code \notin Bindable(blast'.op))
          => /\ berr' # "none"
             /\ state_1fc9' = state_1fc9
             /\ pend' = pend
             /\ events' = events]_vars

\* C12: on the acceptor path the offer handed to bind_respond is answered with a
\* W/1FC9 to the offeror, and the final I/1FC9 handed to bind_confirm leaves the
\* state confirmed and runs the user callback, if there is one, with that message.
C12_AcceptorCompletes ==
    [][/\ (blast'.op = "deliver" /\ blast'.cb.func = "bind_waiting.bind_respond")
            => events' = events \o <<Sent("W", blast'.msg.src)>>
       /\ (blast'.op = "deliver" /\ blast'.cb.func = "bind_waiting.bind_confirm")
            => /\ state_1fc9' = "confirm"
               /\ blast'.cb.callback => events' = events \o <<Called(blast'.msg.src)>>]_vars

(***************************************************************************)
(* The gateway device: what the specification says of it                   *)
(***************************************************************************)

\* C13: the message the gateway device hands to a device it fakes has the faked
\* device for its source, so that the faked device's handler sees msg.src equal to
\* itself.
C13_AliasSubstitutes ==
    handed.to # None => handed.src = handed.to

\* C14: a device the gateway device destroys, when a faked device is created over an
\* id it has, is afterwards in no controller's devices, in no zone's devices and not
\* in the gateway's device_by_id.
C14_DestroyedUnreachable ==
    [][(last'.op = "create_fake" /\ InSeq(kids[Hgi], last'.d))
          => /\ \A c \in GwyIds : ~InSeq(kids'[c], last'.d)
             /\ \A p \in Parents : ~InSeq(zkids'[p], last'.d)
             /\ ~dev'[last'.d].exists]_vars

\* C15: the class of a device changes only by a message with a signature: to
\* HvacVentilator on I/RP 31D9/31DA/31E0, to RfgGateway on RQ 0006/0418/3220 or W 313F,
\* only from the generic class, and so at most once: a promoted device keeps its class.
C15_PromotedOnce ==
    [][\A d \in GwyIds :
          (dev[d].exists /\ klass_as'[d] # klass_as[d])
             => /\ last'.op = "msg" /\ last'.d = d
                /\ klass_as[d] = "DEV"
                /\ \/ /\ klass_as'[d] = "FAN"
                      /\ last'.m.code \in {"31D9", "31DA", "31E0"}
                      /\ last'.m.verb \in {"I", "RP"}
                   \/ /\ klass_as'[d] = "RFG"
                      /\ \/ last'.m.code \in {"0006", "0418", "3220"} /\ last'.m.verb = "RQ"
                         \/ last'.m.code = "313F" /\ last'.m.verb = "W"]_vars

\* a promoted device has handled a later message that has the other class's signature
C15_Witness ==
    /\ klass_as["30:a"] = "FAN"
    /\ last.op = "msg" /\ last.d = "30:a" /\ err = "none"
    /\ last.m.code = "3220" /\ last.m.verb = "RQ"

\* C16 as stated (for a gateway that schedules at all, one with a serial port): every
\* new device, of every class, registers exactly three discovery tasks, SCHEMA every
\* 24 h, PARAMS every 6 h and STATUS every 60 s, with a delay of 10 to 20 s.
C16_Original ==
    [][\A d \in GwyIds :
          (port /\ ~dev[d].exists /\ dev'[d].exists)
             => /\ Len(tasks'[d]) = 3
                /\ \E i \in 1..Len(tasks'[d]) : tasks'[d][i].delay \in 10..20
                /\ \E i \in 1..Len(tasks'[d]) :
                      tasks'[d][i].flag = "SCHEMA" /\ tasks'[d][i].period = 24 * 3600
                /\ \E i \in 1..Len(tasks'[d]) :
                      tasks'[d][i].flag = "PARAMS" /\ tasks'[d][i].period = 6 * 3600
                /\ \E i \in 1..Len(tasks'[d]) :
                      tasks'[d][i].flag = "STATUS" /\ tasks'[d][i].period = 60]_vars

\* C16: with a serial port, every new device registers exactly three discovery tasks:
\* SCHEMA every 24 h with no delay, PARAMS every 6 h (every hour for an OpenTherm
\* bridge) after a delay of 10 to 20 s, and STATUS every 60 s one second after that.
C16_DiscoverySchedule ==
    [][\A d \in GwyIds :
          (port /\ ~dev[d].exists /\ dev'[d].exists)
             => \E delay \in 10..20 :
                   tasks'[d] =
                      << [d |-> d, flag |-> "SCHEMA", delay |-> 0, period |-> 86400],
                         [d |-> d, flag |-> "PARAMS", delay |-> delay,
                          period |-> IF dev_type(d) = "10" THEN 3600 ELSE 21600],
                         [d |-> d, flag |-> "STATUS", delay |-> delay + 1,
                          period |-> 60] >>]_vars

\* the bridge has just been created with a serial port, and has its tasks
C16_Witness ==
    /\ port
    /\ last.op = "create" /\ last.d = "10:a" /\ err = "none"
    /\ Len(tasks["10:a"]) = 3

\* C17: when the packet protocol is not a serial-port protocol, creating a device
\* registers no discovery task and sends no command: no device has a task, ever.
C17_ReplaySchedulesNothing ==
    [][~port => /\ \A d \in GwyIds : tasks'[d] = <<>>
                /\ last'.op = "create" => events' = events]_vars

\* reading a log, the thermostat has just been created after the bridge
C17_Witness ==
    /\ ~port
    /\ last.op = "create" /\ last.d = "03:a" /\ err = "none"
    /\ dev["10:a"].exists /\ dev["03:a"].exists

(***************************************************************************)
(* The transmit engine: what the specification says of it                  *)
(***************************************************************************)

DeviceAsParent(c) == [kind |-> "Device", ctl |-> c, idx |-> None]

\* C29: a failing _set_parent changes nothing: whenever _set_parent raises, for a
\* different parent, a wrong domain, a wrong kind of parent or out of _set_ctl, every
\* device's _parent, _domain_id and _ctl, every controller's devices and every
\* parent's devices are as they were before the call.
C29_FailingSetParentFrame ==
    [][/\ \A d \in DevIds, c \in DevIds, dom \in Domains :
             (dev[d].exists /\ dev[c].exists) =>
                 /\ \A p \in ParentsOf(c) \cup {DeviceAsParent(c)} :
                       set_parent(Fabric, d, p, dom).err # "none" =>
                           /\ set_parent(Fabric, d, p, dom).dev = dev
                           /\ set_parent(Fabric, d, p, dom).kids = kids
                           /\ set_parent(Fabric, d, p, dom).zkids = zkids
                 /\ dev[d].parent = NoParent
                       => set_parent(Fabric, d, DeviceAsParent(c), dom).err = "TypeError"
       /\ (last'.op = "set_parent" /\ err' # "none")
             => dev' = dev /\ kids' = kids /\ zkids' = zkids]_vars

\* _set_parent has just failed inside _set_ctl: the device has no parent, the domain
\* was right for the parent, and the parent is of another controller than the device's
C29_Witness ==
    /\ last.op = "set_parent"
    /\ err = "CorruptStateError"
    /\ dev[last.d].parent = NoParent
    /\ dev[last.d].ctl \notin {None, last.sp.ctl}

\* C30: the controller flag is write-once: once a device's _iz_controller is decided,
\* truthy or False, no later message of any verb, code or address form, and no other
\* operation of the fabric, changes it.
C30_ControllerFlagWriteOnce ==
    [][\A d \in DevIds : dev[d].izc # None => dev'[d].izc = dev[d].izc]_vars

\* a thermostat decided to be no controller has just had a message that only a
\* controller sends, in the address form of a controller
C30_Witness ==
    /\ last.op = "msg"
    /\ last.m.verb = "I"
    /\ last.m.code \in CODE_ONLY_FROM_CTL
    /\ last.m.form = "B"
    /\ dev[last.d].izc = "False"

(***************************************************************************)
(* VirtualRF                                                               *)
(***************************************************************************)

C31_OneTcsPerDevice ==
    /\ [](\A d \in DevIds :
            /\ dev[d].made <= 1
            /\ dev[d].evo => dev[d].made = 1
            /\ dev[d].evo => dev_type(d) \in {"01", "12", "22", "23", "34"})
    /\ [][\A d \in DevIds :
             dev[d].evo => (dev'[d].evo /\ dev'[d].made = dev[d].made)]_vars

\* a thermostat that holds a TCS has just had a further message that only a
\* controller sends, and a TRV that had such a message holds none
C31_Witness ==
    /\ last.op = "msg"
    /\ last.d = "12:a"
    /\ last.m.verb = "I"
    /\ last.m.code \in CODE_ONLY_FROM_CTL
    /\ dev["12:a"].evo /\ dev["12:a"].made = 1
    /\ dev["04:a"].izc = "True" /\ ~dev["04:a"].evo

(***************************************************************************)
(* The gateway's registry                                                  *)
(***************************************************************************)

\* C32: after any sequence of device creations gwy.devices holds no two devices of
\* the same id, and a device is in gwy.devices exactly when gwy.device_by_id has it
\* under its id; the creation of a device whose id is registered raises LookupError
\* and leaves both collections as they were.
C32_RegistryConsistent ==
    /\ [](/\ \A i, j \in 1..Len(gwy_devices) :
                gwy_devices[i].id = gwy_devices[j].id => i = j
          /\ \A i \in 1..Len(gwy_devices) :
                gwy_device_by_id[gwy_devices[i].id] = gwy_devices[i]
          /\ \A d \in DevIds :
                gwy_device_by_id[d] # NoObj =>
                    \E i \in 1..Len(gwy_devices) : gwy_devices[i] = gwy_device_by_id[d])
    /\ [][(nobj' # nobj /\ gwy_device_by_id[last'.d] # NoObj) =>
             /\ err' = "LookupError"
             /\ gwy_devices' = gwy_devices
             /\ gwy_device_by_id' = gwy_device_by_id]_vars

\* the three devices are registered, and the creation of one of them for a second
\* time has just raised
C32_Witness ==
    /\ Len(gwy_devices) = 3
    /\ last.op = "create"
    /\ err = "LookupError"
    /\ gwy_device_by_id[last.d].n < nobj

(***************************************************************************)
(* The bridge's count of sentinel replies                                  *)
(***************************************************************************)

C34_BindRequiresFaking ==
    /\ []((state_1fc9 # "unset" \/ events # <<>> \/ \E h \in Headers : pend[h] # NoCallback)
             => Self \in faked)
    /\ [][/\ (blast'.op = "bind" /\ blast' # blast /\ Self \notin faked) =>
                /\ berr' = "RuntimeError"
                /\ state_1fc9' = state_1fc9
                /\ pend' = pend
                /\ events' = events
          /\ (blast'.op = "bind" /\ binds' # binds /\ Self \in faked) =>
                /\ berr' = "none"
                /\ state_1fc9' \in {"request", "waiting"}
          /\ (blast'.op = "make_fake" /\ binds' = binds /\ blast' # blast) =>
                /\ Self \in faked'
                /\ (Self \in faked => (faked' = faked /\ include' = include))
                /\ state_1fc9' = state_1fc9 /\ pend' = pend /\ events' = events
          /\ Self \in faked => Self \in faked']_vars

\* a _bind() was refused, the device was made faked since, and a _bind() has just
\* sent its offer
C34_Witness ==
    /\ blast.op = "bind"
    /\ berr = "none"
    /\ binds = 2
    /\ state_1fc9 = "request"
    /\ Len(events) = 1
    /\ pend["offer"] # NoCallback

(***************************************************************************)
(* discovery.py: spawn_execute_cmd, the command of --execute-cmd            *)
(***************************************************************************)
MaxTokens == 7

\* a token of the string: a device id (DEVICE_ID_REGEX matches it), another field that
\* is well formed, or a field that is not
TokenKinds == {"id", "ok", "bad"}

\* the strings of up to MaxTokens tokens, as the list str.split() makes of them (a string
\* of blanks gives the empty list)
RECURSIVE TokenLists(_)
TokenLists(n) ==
    IF n = 0 THEN {<<>>}
    ELSE TokenLists(n - 1)
         \cup {Append(c, t) : c \in {k \in TokenLists(n - 1) : Len(k) = n - 1},
                              t \in TokenKinds}

\* list.pop(): the list without its last item
Front(c) == SubSeq(c, 1, Len(c) - 1)

\* qos = {"priority": Priority.HIGH, "retries": 3}
ExecuteQos == [priority |-> "HIGH", retries |-> 3]

\* Command.packet(verb, seqn, *addrs, code, payload): whether it raises ValueError
packet_raises(verb, seqn, addrs, code, payload) ==
    ~ /\ verb = "ok"
      /\ seqn \in {"---", "ok"}
      /\ \A i \in 1..Len(addrs) : addrs[i] = "id"
      /\ code = "ok"
      /\ payload = "ok"

\* the part of spawn_execute_cmd after the four fields were popped: cmd is what is left
\* of the list, the addresses
send_packet(verb, seqn, cmd, code, payload, accepts) ==
    IF Len(cmd) \notin 1..3
    THEN [err |-> "none", sent |-> <<>>, warned |-> TRUE]
    ELSE IF (\E i \in 1..Len(cmd) : cmd[i] # "id") /\ ~accepts
    THEN [err |-> "extract_addrs", sent |-> <<>>, warned |-> FALSE]
    ELSE IF packet_raises(verb, seqn, cmd, code, payload)
    THEN [err |-> "none", sent |-> <<>>, warned |-> TRUE]
    ELSE [err |-> "none", sent |-> <<ExecuteQos>>, warned |-> FALSE]

\* spawn_execute_cmd(gwy, **kwargs): ec is kwargs["execute_cmd"], accepts is whether
\* extract_addrs returns when it is given what is not a device id
spawn_execute_cmd(ec, accepts) ==
    IF ~ec.given
    THEN [err |-> "none", sent |-> <<>>, warned |-> FALSE]
    ELSE IF Len(ec.tokens) = 0
    THEN [err |-> "IndexError", sent |-> <<>>, warned |-> FALSE]    \* cmd.pop(0)
    ELSE IF Len(Tail(ec.tokens)) = 0
    THEN [err |-> "IndexError", sent |-> <<>>, warned |-> FALSE]    \* cmd[0]
    ELSE LET verb == Head(ec.tokens)
             c1 == Tail(ec.tokens)
             seqn == IF c1[1] = "id" THEN "---" ELSE c1[1]
             c2 == IF c1[1] = "id" THEN c1 ELSE Tail(c1)
         IN  IF Len(c2) < 2
             THEN [err |-> "IndexError", sent |-> <<>>, warned |-> FALSE]  \* cmd.pop()
             ELSE send_packet(verb, seqn, Front(Front(c2)), c2[Len(c2) - 1],
                              c2[Len(c2)], accepts)

\* spawn_execute_cmd(gwy, **kwargs) is called
SpawnExecuteCmd ==
    /\ xres = NoRun
    /\ xres' = spawn_execute_cmd(execute_cmd, addrs_ok)
    /\ UNCHANGED <<execute_cmd, addrs_ok, poll_devices, script_opts, gwy_tasks, created,
                   spawner, wrappers, logged, gather, wlast>>
    /\ UNCHANGED <<fabricVars, otbVars, bindVars, gwyVars, txVars, mainVars, dispVars,
                   schemaVars, regVars, chopVars>>

InitCmd ==
    /\ FabricIdle /\ OtbInit /\ ids_as = "hex" /\ BindInit /\ GwyIdle /\ TxIdle /\ MainIdle
    /\ DispIdle /\ SchemaIdle /\ RegIdle /\ ChopIdle
    /\ execute_cmd \in {NoString} \cup {String(c) : c \in TokenLists(MaxTokens)}
    /\ addrs_ok \in BOOLEAN
    /\ xres = NoRun
    /\ poll_devices = <<>>
    /\ script_opts = {}
    /\ gwy_tasks = <<>>
    /\ created = <<>>
    /\ spawner = "none"
    /\ wrappers = [w \in TaskOpts |-> "absent"]
    /\ logged = {}
    /\ gather = "none"
    /\ wlast = NoFetch

NextCmd == SpawnExecuteCmd

SpecCmd == InitCmd /\ [][NextCmd]_vars

\* C35: spawn_execute_cmd never raises: whatever the string of --execute-cmd is, it either
\* sends exactly one command with priority HIGH and 3 retries, or it logs a warning and
\* sends nothing.
C35_NeverRaises ==
    (xres # NoRun /\ execute_cmd.given) =>
        /\ xres.err = "none"
        /\ \/ xres.sent = <<ExecuteQos>> /\ ~xres.warned
           \/ xres.sent = <<>> /\ xres.warned

\* the string "RQ 01:145038" was given: the code is popped off an empty list
C35_Witness ==
    /\ execute_cmd = String(<<"ok", "id">>)
    /\ xres.err = "IndexError"

(***************************************************************************)
(* discovery.py: the tasks of spawn_monitor_scripts, spawn_execute_scripts  *)
(* and poll_device, and gwy._tasks                                          *)
(***************************************************************************)
MaxPolled == 2

\* a task loop.create_task() has made: the n-th, of this coroutine
ATask(n, coro) == [kind |-> "task", id |-> n, coro |-> coro, items |-> <<>>]

\* a list of tasks
ListOf(ts) == [kind |-> "list", id |-> 0, coro |-> "None", items |-> ts]

\* the codes poll_device takes when the device's type has no poll_codes
PollCodes == <<"0016", "1FC9">>

\* the ids --poll-devices can name, and the lists of up to MaxPolled of them
PollIds == {"01:a", "13:a"}

RECURSIVE PollLists(_)
PollLists(n) ==
    IF n = 0 THEN {<<>>}
    ELSE PollLists(n - 1)
         \cup {Append(c, d) : c \in {k \in PollLists(n - 1) : Len(k) = n - 1}, d \in PollIds}

\* the gateway and the loop, as the spawning functions see them
Spawned == [tasks |-> gwy_tasks, created |-> created, x |-> xres]

\* tasks.append(gwy._loop.create_task(periodic(gwy, cmd, count=0))), twice per code
RECURSIVE periodic_tasks(_, _)
periodic_tasks(n, codes) ==
    IF codes = <<>> THEN <<>>
    ELSE <<ATask(n + 1, "periodic"), ATask(n + 2, "periodic")>>
         \o periodic_tasks(n + 2, Tail(codes))

\* poll_device(gwy, dev_id): the gateway after it, and the list it returns
poll_device_tasks(D, dev_id) ==
    LET ts == periodic_tasks(Len(D.created), PollCodes)
    IN  [D |-> [D EXCEPT !.created = @ \o ts, !.tasks = @ \o ts],
         ret |-> ts]

\* [poll_device(gwy, d) for d in kwargs["poll_devices"]]: the gateway after it, and the
\* list that is made, an item per device
RECURSIVE poll_each(_, _)
poll_each(D, ds) ==
    IF ds = <<>> THEN [D |-> D, ret |-> <<>>]
    ELSE LET R == poll_device_tasks(D, Head(ds))
             S == poll_each(R.D, Tail(ds))
         IN  [D |-> S.D, ret |-> <<ListOf(R.ret)>> \o S.ret]

\* gwy._tasks.extend(tasks)
extend_with_items(D, ts) == [D EXCEPT !.tasks = @ \o ts]

\* spawn_monitor_scripts(gwy, **kwargs)
spawn_monitor_scripts(D, ec, accepts, ds) ==
    LET X == spawn_execute_cmd(ec, accepts)
        D1 == [D EXCEPT !.x = X]
    IN  IF X.err # "none" THEN D1
        ELSE LET R == poll_each(D1, ds)
             IN  extend_with_items(R.D, R.ret)

\* the options spawn_execute_scripts makes a task for, in its order; each scan option
\* names one device
ScriptOrder == <<"get_faults", "get_schedule", "set_schedule", "scan_disc", "scan_full",
                 "scan_hard", "scan_xxxx">>

\* tasks += [gwy._loop.create_task(...)] for the options that are given
RECURSIVE script_tasks(_, _, _)
script_tasks(n, order, opts) ==
    IF order = <<>> THEN <<>>
    ELSE IF Head(order) \in opts
    THEN <<ATask(n + 1, Head(order))>> \o script_tasks(n + 1, Tail(order), opts)
    ELSE script_tasks(n, Tail(order), opts)

\* the command spawn_execute_scripts sends to wake the interface
WakeQos == [priority |-> "HIGH", retries |-> 5]

\* spawn_execute_scripts(gwy, **kwargs); inc is gwy._include
spawn_scripts(D, ec, accepts, opts, inc) ==
    LET woken == IF ~ec.given /\ inc # {} THEN <<WakeQos>> ELSE <<>>
        X == spawn_execute_cmd(ec, accepts)
        D1 == [D EXCEPT !.x = [X EXCEPT !.sent = woken \o @]]
    IN  IF X.err # "none" THEN D1
        ELSE LET ts == script_tasks(Len(D.created), ScriptOrder, opts)
             IN  extend_with_items([D1 EXCEPT !.created = @ \o ts], ts)

SpawnCommit(D, by) ==
    /\ gwy_tasks' = D.tasks
    /\ created' = D.created
    /\ xres' = D.x
    /\ spawner' = by
    /\ UNCHANGED <<execute_cmd, addrs_ok, poll_devices, script_opts, logged, wlast>>
    /\ UNCHANGED <<fabricVars, otbVars, bindVars, gwyVars, txVars, mainVars, dispVars,
                   schemaVars, regVars, chopVars>>

\* main, under the monitor command: tasks = spawn_monitor_scripts(gwy, **kwargs)
SpawnMonitorScripts ==
    /\ spawner = "none"
    /\ SpawnCommit(spawn_monitor_scripts(Spawned, execute_cmd, addrs_ok, poll_devices),
                   "spawn_monitor_scripts")
    /\ UNCHANGED <<wrappers, gather>>

\* the script tasks that run, given the tasks that were made
running_scripts(ts) ==
    [w \in TaskOpts |-> IF \E i \in DOMAIN ts : ts[i].coro = w THEN "awaiting"
                        ELSE "absent"]

\* asyncio.gather(*tasks), given how the tasks stand: it raises what the first task that
\* fails raises, and returns once all have returned
gathered(g, W) ==
    IF g = "raised" \/ \E w \in TaskOpts : W[w] = "raised" THEN "raised"
    ELSE IF \A w \in TaskOpts : W[w] # "awaiting" THEN "returned"
    ELSE "pending"

\* main, under the execute command: tasks = spawn_execute_scripts(gwy, **kwargs), and
\* await asyncio.gather(*tasks) begins
SpawnExecuteScripts ==
    /\ spawner = "none"
    /\ poll_devices = <<>>
    /\ \E D \in {spawn_scripts(Spawned, execute_cmd, addrs_ok, script_opts, include)} :
          /\ SpawnCommit(D, "spawn_execute_scripts")
          /\ wrappers' = running_scripts(D.created)
          /\ gather' = IF D.x.err # "none" THEN "none"
                       ELSE gathered("pending", running_scripts(D.created))

InitTasks ==
    /\ OtbInit /\ ids_as = "hex" /\ BindInit /\ GwyIdle /\ TxIdle /\ MainIdle
    /\ DispIdle /\ SchemaIdle /\ RegIdle /\ ChopIdle
    /\ dev = [d \in DevIds |-> NewDev]
    /\ kids = [d \in DevIds |-> <<>>]
    /\ zkids = [p \in Parents |-> <<>>]
    /\ err = "none"
    /\ last = [op |-> "init", d |-> None, m |-> NoMsg, sp |-> NoParent]
    /\ include \in {{}, {"01:a"}}
    /\ eavesdrop = FALSE
    /\ present = {}
    /\ execute_cmd \in {NoString, String(<<"ok", "id", "ok", "ok">>), String(<<"ok", "id">>)}
    /\ addrs_ok = TRUE
    /\ xres = NoRun
    /\ poll_devices \in PollLists(MaxPolled)
    /\ script_opts \in SUBSET TaskOpts
    /\ gwy_tasks = <<>>
    /\ created = <<>>
    /\ spawner = "none"
    /\ wrappers = [w \in TaskOpts |-> "absent"]
    /\ logged = {}
    /\ gather = "none"
    /\ wlast = NoFetch

NextTasks ==
    \/ SpawnMonitorScripts
    \/ SpawnExecuteScripts

SpecTasks == InitTasks /\ [][NextTasks]_vars

\* C36: every task spawn_monitor_scripts, spawn_execute_scripts and poll_device have
\* spawned is in gwy._tasks exactly once, and gwy._tasks holds task objects only.
C36_TasksRegisteredOnce ==
    /\ \A i \in DOMAIN gwy_tasks : gwy_tasks[i].kind = "task"
    /\ \A j \in DOMAIN created :
          Cardinality({i \in DOMAIN gwy_tasks : gwy_tasks[i] = created[j]}) = 1

\* the monitor command has polled one device: its four tasks are in gwy._tasks, and so
\* is the list of them
C36_Witness ==
    /\ spawner = "spawn_monitor_scripts"
    /\ Len(poll_devices) = 1
    /\ Len(created) = 4
    /\ Len(gwy_tasks) = 5
    /\ gwy_tasks[5].kind = "list"

(***************************************************************************)
(* discovery.py: get_faults, get_schedule, set_schedule around their fetch, *)
(* and main's asyncio.gather of the script tasks                            *)
(***************************************************************************)
\* how what a script awaits can end: it returns, its callback expires, or the task is
\* cancelled
Outcomes == {"returned", "ExpiredCallbackError", "CancelledError"}

\* a wrapper that logs the expiry and raises it again
script_wrapper_reraises(w, how) ==
    [ends |-> IF how = "returned" THEN "returned" ELSE "raised",
     logged |-> w \in Fetchers /\ how = "ExpiredCallbackError"]

\* get_faults, get_schedule, set_schedule: try: await ... except ExpiredCallbackError:
\* _LOGGER.error(...); the scans have no try
script_wrapper(w, how) ==
    IF w \in Fetchers /\ how = "ExpiredCallbackError"
    THEN [ends |-> "returned", logged |-> TRUE]
    ELSE [ends |-> IF how = "returned" THEN "returned" ELSE "raised",
          logged |-> FALSE]

\* what the script task w awaits ends in this way, and so the task ends
ScriptEnds(w, how) ==
    /\ wrappers[w] = "awaiting"
    /\ how = "ExpiredCallbackError" => w \in Fetchers
    /\ \E R \in {script_wrapper(w, how)} :
          /\ wrappers' = [wrappers EXCEPT ![w] = R.ends]
          /\ logged' = IF R.logged THEN logged \cup {w} ELSE logged
          /\ gather' = gathered(gather, [wrappers EXCEPT ![w] = R.ends])
    /\ wlast' = [script |-> w, outcome |-> how]
    /\ UNCHANGED <<execute_cmd, addrs_ok, xres, poll_devices, script_opts, gwy_tasks,
                   created, spawner>>
    /\ UNCHANGED <<fabricVars, otbVars, bindVars, gwyVars, txVars, mainVars, dispVars,
                   schemaVars, regVars, chopVars>>

InitWrap ==
    /\ FabricIdle /\ OtbInit /\ ids_as = "hex" /\ BindInit /\ GwyIdle /\ TxIdle /\ MainIdle
    /\ DispIdle /\ SchemaIdle /\ RegIdle /\ ChopIdle
    /\ execute_cmd \in {NoString, String(<<"ok", "id", "ok", "ok">>)}
    /\ addrs_ok = TRUE
    /\ xres = NoRun
    /\ poll_devices = <<>>
    /\ script_opts \in SUBSET (Fetchers \cup {"scan_disc"})
    /\ gwy_tasks = <<>>
    /\ created = <<>>
    /\ spawner = "none"
    /\ wrappers = [w \in TaskOpts |-> "absent"]
    /\ logged = {}
    /\ gather = "none"
    /\ wlast = NoFetch

NextWrap ==
    \/ SpawnExecuteScripts
    \/ \E w \in TaskOpts, how \in Outcomes : ScriptEnds(w, how)

SpecWrap == InitWrap /\ [][NextWrap]_vars

\* C37: when the fetch of get_faults, get_schedule or set_schedule fails with
\* ExpiredCallbackError, the script logs it and completes normally: asyncio.gather in
\* main does not raise because of it, and the other script tasks stay as they are.
C37_WrappersAbsorbExpiry ==
    [][\A w \in Fetchers :
          (/\ wrappers[w] = "awaiting"
           /\ wrappers'[w] # "awaiting"
           /\ wlast' = [script |-> w, outcome |-> "ExpiredCallbackError"])
          => /\ wrappers'[w] = "returned"
             /\ w \in logged'
             /\ gather' = "raised" => gather = "raised"
             /\ \A v \in TaskOpts \ {w} : wrappers'[v] = wrappers[v]]_vars

\* the fault log's fetch has expired and was logged while get_schedule still runs and
\* main still waits
C37_Witness ==
    /\ wlast = [script |-> "get_faults", outcome |-> "ExpiredCallbackError"]
    /\ wrappers["get_faults"] = "returned"
    /\ "get_faults" \in logged
    /\ wrappers["get_schedule"] = "awaiting"
    /\ gather = "pending"

(***************************************************************************)
(* puzzle.py: binary_chop, the search for the edge of the band that is      *)
(* heard                                                                    *)
(***************************************************************************)
MaxFreq == 8

\* int(n / 2): the quotient, rounded towards zero
int_half(n) == IF n >= 0 THEN n \div 2 ELSE -((-n) \div 2)

\* direction = 1 if x < y else -1
direction(x, y) == IF x < y THEN 1 ELSE -1

\* the frequency after this one: back towards x if something was heard (threshold=0),
\* on away from x if not
new_freq(f, x, y, res) ==
    IF res > 0 THEN int_half(f + x - direction(x, y))
    ELSE int_half(f + y + direction(x, y))

\* one pass of the loop: set_freq(freq), check_reception(freq, count=1) returns res, and
\* either the function returns or freq = new_freq
ChopStep(res) ==
    /\ chop_pc = "loop"
    /\ result' = res
    /\ IF freq \in {chop_x, chop_y}
       THEN chop_pc' = "returned" /\ freq' = freq
       ELSE chop_pc' = "loop" /\ freq' = new_freq(freq, chop_x, chop_y, res)
    /\ UNCHANGED <<chop_x, chop_y>>
    /\ UNCHANGED <<fabricVars, otbVars, bindVars, gwyVars, txVars, mainVars, dispVars,
                   schemaVars, regVars, discVars>>

\* binary_chop(x, y) is called: freq = int((x + y) / 2)
InitChop ==
    /\ FabricIdle /\ OtbInit /\ ids_as = "hex" /\ BindInit /\ GwyIdle /\ TxIdle /\ MainIdle
    /\ DispIdle /\ SchemaIdle /\ RegIdle /\ DiscIdle
    /\ chop_x \in 0..MaxFreq
    /\ chop_y \in 0..MaxFreq
    /\ chop_x # chop_y
    /\ freq = int_half(chop_x + chop_y)
    /\ result = -1
    /\ chop_pc = "loop"

\* check_reception returns count_rcvd: nothing heard, or a packet
NextChop == \E res \in 0..1 : ChopStep(res)

SpecChop == InitChop /\ [][NextChop]_vars

\* the loop goes on as long as it has not returned
SpecChopLive == SpecChop /\ WF_vars(NextChop)

\* C38: binary_chop terminates: whatever the bounds x # y and whatever is heard, the
\* search comes to x or y and returns, and every frequency it sets lies between
\* min(x, y) and max(x, y).
C38_ChopTerminates ==
    /\ <>(chop_pc = "returned")
    /\ [](/\ freq >= IF chop_x < chop_y THEN chop_x ELSE chop_y
          /\ freq <= IF chop_x < chop_y THEN chop_y ELSE chop_x)

\* the search from 0 to 8 is back at 5, where it was two passes ago
C38_Witness ==
    /\ chop_x = 0
    /\ chop_y = 8
    /\ chop_pc = "loop"
    /\ freq = 5
    /\ result = 0
====
